---- MODULE Spec2Model ----
(***************************************************************************)
(* chaosmesh-py: the lifecycle controller (ChaosController), the two       *)
(* polling waits (wait_for_injection, wait_for_deletion) and the client    *)
(* requests they issue, against a control plane whose reconciler and API   *)
(* server act on their own.                                                *)
(*                                                                         *)
(* Time is in seconds.  The wait loops read the clock only through         *)
(* time.time() - start_time, which is the variable field w.elapsed.        *)
(***************************************************************************)
EXTENDS Integers, Sequences, FiniteSets, TLC

\* ------------------------------------------------------------------ bounds

\* The experiments of a run (kind/namespace/name triples).
Exps == {"e1", "e2"}

\* Longest tracked list the scope body builds.
MaxTracked == 2

\* Longest time one status request takes.
MaxLatency == 1

\* Largest explicit timeout / poll_interval the scope body passes to a wait.
MaxTimeout == 2

\* Longest string passed as a value or as a duration.
MaxLen == 3

\* Status requests of one wait are counted up to this many.
MaxPolls == 4

\* Calls of to_crd on one experiment.
MaxBuilds == 2

\* Clock ticks from the first to the last moment an experiment is
\* constructed at.
MaxClock == 3

\* ChaosConfig instances created in one run, the one made at import included.
MaxInstances == 2

\* Answers of the control plane that one run of a lifecycle method is given
\* (the later requests of the run get the same answers again).
MaxReplies == 3

\* -------------------------------------------------------- program constants

\* ChaosController.__exit__: chaos.wait_for_deletion(self.client, timeout=30)
ExitTimeout == 30

\* BaseChaos.wait_for_deletion(timeout: int = 30, poll_interval: float = 1.0)
DeletionTimeout == 30
DeletionPollInterval == 1

\* ChaosConfig.__init__(retry_max_attempts: int = 3)
RetryMaxAttempts == 3

\* ------------------------------------------------------------ control plane

\* status.conditions entries (read, never written by the program)
Cond(t, s) == [type |-> t, status |-> s]

\* A resource's "status" sub-object: absent (hasStatus = FALSE) or a
\* mapping with a conditions list.
NoStatus == [hasStatus |-> FALSE, conditions |-> <<>>]

StatusOf(cs) == [hasStatus |-> TRUE, conditions |-> cs]

\* The statuses the reconciler writes in this model.
Statuses ==
  { NoStatus,
    StatusOf(<<>>),
    StatusOf(<<Cond("AllInjected", "False")>>),
    StatusOf(<<Cond("Selected", "False"), Cond("AllInjected", "True")>>),
    StatusOf(<<Cond("AllInjected", "True"), Cond("Selected", "False")>>) }

\* The statuses the reconciler writes under a controller scope, whose only
\* reader of a status is inject's wait_for_injection: one that confirms the
\* injection and one that does not (a new resource has no status).
ScopeStatuses ==
  { StatusOf(<<Cond("AllInjected", "False")>>),
    StatusOf(<<Cond("Selected", "False"), Cond("AllInjected", "True")>>) }

\* A status as the control plane holds it lists the condition
\* {type: "AllInjected", status: "True"}.
ReportsAllInjected(status) ==
  /\ status.hasStatus
  /\ \E i \in 1..Len(status.conditions) :
       status.conditions[i] = Cond("AllInjected", "True")

\* A resource on the control plane.  exists: a get answers 200; deleting:
\* a delete was accepted and the resource awaits its finalizers.
Absent == [exists |-> FALSE, deleting |-> FALSE, status |-> NoStatus]

Present(st) == [exists |-> TRUE, deleting |-> FALSE, status |-> st]

\* ------------------------------------------------------------------- state

VARIABLES
  cluster,            \* control plane: experiment -> resource
  config,             \* chaos_sdk.config.config, the process-wide ChaosConfig
  active_experiments, \* ChaosController.active_experiments
  pc,                 \* position of the calling thread
  op,                 \* the controller operation in progress and its arguments
  w,                  \* frame of the wait loop in progress
  cleanup_errors,     \* __exit__'s local list
  idx,                \* __exit__'s position in active_experiments (1-based)
  exc_type,           \* __exit__'s argument: the failure leaving the scope body
  raised,             \* what the last finished operation raised ("none": returned)
  observed,           \* what the caller of the with statement observes
  log,                \* what the pass in progress did, for the properties
  call,               \* frame of the last ChaosClient call made by hand
  chaos,              \* the ChaosSelector and the experiment last constructed
  parsed,             \* the last call of parse_duration: argument and outcome
  client,             \* the last construction of a ChaosClient
  run,                \* one lifecycle method run as BaseChaos's and as
                      \* ChaosManager's against the same answers
  ChaosConfig         \* the class attributes of ChaosConfig and the instances
                      \* other than the one bound to config

vars == <<cluster, config, active_experiments, pc, op, w, cleanup_errors, idx,
          exc_type, raised, observed, log, call, chaos, parsed, client, run,
          ChaosConfig>>

\* ----------------------------------------------------------- configuration

\* ChaosConfig.__init__: the attributes the model reads.  The two wait
\* defaults are scaled to the model's clock (MaxTimeout + 1 and MaxTimeout
\* seconds for 60 and 2.0); kubeconfig_path is None.
DefaultConfig ==
  [api_group |-> "chaos-mesh.org", api_version |-> "v1alpha1",
   wait_timeout |-> MaxTimeout + 1, poll_interval |-> MaxTimeout,
   kubeconfig_path |-> <<>>]

\* Keyword arguments of config.update in the model, one key a call: the API
\* group and version, and a key ChaosConfig does not have.
ApiUpdates ==
  { <<"api_group", "chaos-mesh.org">>, <<"api_group", "chaos.example.org">>,
    <<"api_version", "v1alpha1">>, <<"api_version", "v1beta1">>,
    <<"no_such_key", "x">> }

\* The same for the wait defaults.
WaitUpdates ==
  { <<"wait_timeout", 1>>, <<"wait_timeout", MaxTimeout + 1>>,
    <<"poll_interval", 1>>, <<"poll_interval", MaxTimeout>> }

\* Keys of update that are no configuration field: an unknown name, a
\* method and the private class attributes.
NonFieldUpdates ==
  { <<"no_such_key", "x">>, <<"update", "x">>, <<"_instance", "x">>,
    <<"_initialized", "x">> }

\* hasattr(self, key) on a ChaosConfig with the fields of cfg: true of the
\* instance attributes and of what the class defines.
hasattr(cfg, key) ==
  \/ key \in DOMAIN cfg
  \/ key \in {"_instance", "_initialized", "get_instance", "reset", "update"}

\* ChaosConfig.update(key=value) on the instance with the fields cfg: its
\* fields afterwards.  setattr when the object has the attribute and the key
\* does not start with an underscore (setting an attribute that is no field
\* changes no field); else the key is logged and ignored.
update(cfg, key, value) ==
  IF hasattr(cfg, key) /\ key \notin {"_instance", "_initialized"}
    THEN (IF key \in DOMAIN cfg THEN [cfg EXCEPT ![key] = value] ELSE cfg)
    ELSE cfg

\* config.update(key=value) on the instance made at import.  Any thread may
\* call it at any time.
ConfigUpdate(key, value) ==
  /\ config' = update(config, key, value)
  /\ UNCHANGED <<cluster, active_experiments, pc, op, w, cleanup_errors, idx,
                 exc_type, raised, observed, log, call, chaos, parsed, client,
                 run, ChaosConfig>>

\* The class after "config = ChaosConfig.get_instance()" at import: instance
\* (_instance: 0 is None, 1 the instance bound to config, 2.. those made
\* after a reset), initialized (_initialized), others (the fields of the
\* instances 2.., in order); called, kwargs, returned: the last call on the
\* class, its arguments and the instance it returned.
ImportedConfig ==
  [instance |-> 1, initialized |-> TRUE, others |-> <<>>,
   called |-> "get_instance", kwargs |-> DefaultConfig, returned |-> 1]

\* The fields of instance id.
Fields(id) == IF id = 1 THEN config ELSE ChaosConfig.others[id - 1]

\* Keyword arguments of the constructor in the model, defaults filled in.
CtorConfigs ==
  { DefaultConfig,
    [DefaultConfig EXCEPT !.api_version = "v1beta1"],
    [DefaultConfig EXCEPT !.wait_timeout = 1,
                          !.kubeconfig_path = <<"~/.kube/alt">>] }

\* ChaosConfig.__new__: the instance it returns, count instances existing.
new(instance, count) == IF instance = 0 THEN count + 1 ELSE instance

init_BugReinitializes(initialized, fields, kwargs) == kwargs

\* ChaosConfig.__init__: the fields of the instance afterwards.
init(initialized, fields, kwargs) == IF initialized THEN fields ELSE kwargs

\* cls(**kwargs) called as fn: __new__, then __init__ on what it returned.
Construct(fn, kwargs) ==
  LET count == 1 + Len(ChaosConfig.others)
      id    == new(ChaosConfig.instance, count)
      after == init(ChaosConfig.initialized,
                    IF id <= count THEN Fields(id) ELSE kwargs, kwargs)
  IN /\ id <= MaxInstances
     /\ config' = IF id = 1 THEN after ELSE config
     /\ ChaosConfig' =
          [ChaosConfig EXCEPT
             !.instance = id, !.initialized = TRUE,
             !.others = IF id = 1 THEN @
                        ELSE IF id <= count THEN [@ EXCEPT ![id - 1] = after]
                        ELSE Append(@, after),
             !.called = fn, !.kwargs = kwargs, !.returned = id]
     /\ UNCHANGED <<cluster, active_experiments, pc, op, w, cleanup_errors,
                    idx, exc_type, raised, observed, log, call, chaos, parsed,
                    client, run>>

\* ChaosConfig(**kwargs)
NewConfig(kwargs) == Construct("ChaosConfig", kwargs)

\* ChaosConfig.get_instance()
GetInstance ==
  IF ChaosConfig.instance = 0
    THEN Construct("get_instance", DefaultConfig)
    ELSE /\ ChaosConfig' = [ChaosConfig EXCEPT
                              !.called = "get_instance",
                              !.kwargs = DefaultConfig,
                              !.returned = ChaosConfig.instance]
         /\ UNCHANGED <<cluster, config, active_experiments, pc, op, w,
                        cleanup_errors, idx, exc_type, raised, observed, log,
                        call, chaos, parsed, client, run>>

\* ChaosConfig.reset()
Reset ==
  /\ 1 + Len(ChaosConfig.others) < MaxInstances
  /\ ChaosConfig' = [ChaosConfig EXCEPT
                       !.instance = 0, !.initialized = FALSE,
                       !.called = "reset", !.kwargs = DefaultConfig,
                       !.returned = 0]
  /\ UNCHANGED <<cluster, config, active_experiments, pc, op, w,
                 cleanup_errors, idx, exc_type, raised, observed, log, call,
                 chaos, parsed, client, run>>

\* ChaosConfig.get_instance().update(key=value) once the instance is not the
\* one bound to config.
InstanceUpdate(key, value) ==
  /\ ChaosConfig.instance > 1
  /\ ChaosConfig' =
       [ChaosConfig EXCEPT
          !.others[ChaosConfig.instance - 1] = update(@, key, value)]
  /\ UNCHANGED <<cluster, config, active_experiments, pc, op, w,
                 cleanup_errors, idx, exc_type, raised, observed, log, call,
                 chaos, parsed, client, run>>

\* ------------------------------------------------------------------ client

\* HTTP status the API server gives a request on experiment e: a transport
\* failure (500) whenever it likes, else by the resource's presence.
\* create: 201 / 409; get, delete: 200 / 404; list (of a namespace): 200.
Http(verb, res, fail) ==
  IF fail THEN 500
  ELSE IF verb = "create" THEN (IF res.exists THEN 409 ELSE 201)
  ELSE IF verb = "list" THEN 200
  ELSE (IF res.exists THEN 200 ELSE 404)

create_chaos_resource_BugConflictUntranslated(http) ==
  IF http = 201 THEN "none" ELSE "ChaosMeshConnectionError"

create_chaos_resource_BugConflictIgnored(http) ==
  IF http \in {201, 409} THEN "none" ELSE "ChaosMeshConnectionError"

\* ChaosClient.create_chaos_resource: what it raises ("none": returns the
\* created resource).  ChaosClient._handle_api_exception translates every
\* status but 409 to ChaosMeshConnectionError.
create_chaos_resource(http) ==
  IF http = 201 THEN "none"
  ELSE IF http = 409 THEN "ExperimentAlreadyExistsError"
  ELSE "ChaosMeshConnectionError"

delete_chaos_resource_BugNotFoundRaises(http) ==
  IF http = 200 THEN "none"
  ELSE IF http = 404 THEN "ChaosResourceNotFoundError"
  ELSE "ChaosMeshConnectionError"

\* ChaosClient.delete_chaos_resource: what it raises ("none": returns).  A
\* 404 is logged as a warning and not raised.
delete_chaos_resource(http) ==
  IF http \in {200, 404} THEN "none" ELSE "ChaosMeshConnectionError"

\* ChaosClient.get_chaos_resource: what it raises ("none": returns the
\* resource).  Every ApiException is translated inside the function, so the
\* retry decorator (retry_if_exception_type(ApiException)) never sees one.
get_chaos_resource(http) ==
  IF http = 200 THEN "none"
  ELSE IF http = 404 THEN "ChaosResourceNotFoundError"
  ELSE "ChaosMeshConnectionError"

\* ChaosClient.list_chaos_resources: what it raises ("none": returns the
\* items).  Every ApiException goes to ChaosClient._handle_api_exception.
list_chaos_resources(http) ==
  IF http = 200 THEN "none" ELSE "ChaosMeshConnectionError"

\* The control plane after the API server handled the request.
AfterRequest(verb, res, http) ==
  IF verb = "create" /\ http = 201 THEN Present(NoStatus)
  ELSE IF verb = "delete" /\ http = 200 THEN [res EXCEPT !.deleting = TRUE]
  ELSE res

\* ------------------------------------------------------------- connection

\* What the two loaders of the kubernetes package can answer: in-cluster
\* loading returns or raises ConfigException (no service account in the
\* process's environment); kubeconfig loading returns, or raises
\* ConfigException (invalid file) or an error of reading the file.
InclusterOutcomes == {"ok", "ConfigException"}

KubeconfigOutcomes == {"ok", "ConfigException", "FileNotFoundError"}

\* kubeconfig_path arguments of ChaosClient(...): None, "", or a path.
KubeconfigPaths == { <<>>, <<"">>, <<"~/.kube/alt">> }

\* No ChaosClient constructed yet.  loads: the loaders called, in order;
\* kube_path: the config_file given to load_kube_config; constructed: the
\* constructor returned an object; error, cause: what it raised and the
\* __cause__ of that.
NoClient ==
  [called |-> FALSE, incluster |-> "ok", kubeconfig |-> "ok", loads |-> <<>>,
   kube_path |-> <<>>, constructed |-> FALSE, error |-> "none",
   cause |-> "none"]

setup_kubernetes_client_BugKubeconfigFirst(kube_path, incluster, kubeconfig) ==
  IF kubeconfig = "ok"
    THEN [loads |-> <<"kubeconfig">>, kube_path |-> kube_path,
          error |-> "none", cause |-> "none"]
  ELSE IF incluster = "ok"
    THEN [loads |-> <<"kubeconfig", "incluster">>, kube_path |-> kube_path,
          error |-> "none", cause |-> "none"]
  ELSE [loads |-> <<"kubeconfig", "incluster">>, kube_path |-> kube_path,
        error |-> "ChaosMeshConnectionError", cause |-> incluster]

\* ChaosClient._setup_kubernetes_client: load_incluster_config, and on its
\* ConfigException load_kube_config(config_file=kube_path), whose error is
\* raised as ChaosMeshConnectionError "from e".
setup_kubernetes_client(kube_path, incluster, kubeconfig) ==
  IF incluster = "ok"
    THEN [loads |-> <<"incluster">>, kube_path |-> <<>>,
          error |-> "none", cause |-> "none"]
  ELSE IF kubeconfig = "ok"
    THEN [loads |-> <<"incluster", "kubeconfig">>, kube_path |-> kube_path,
          error |-> "none", cause |-> "none"]
  ELSE [loads |-> <<"incluster", "kubeconfig">>, kube_path |-> kube_path,
        error |-> "ChaosMeshConnectionError", cause |-> kubeconfig]

\* ChaosClient(kubeconfig_path) in a process where the two loaders answer
\* incluster and kubeconfig: kube_path = kubeconfig_path or
\* config.kubeconfig_path, _setup_kubernetes_client, then
\* self.custom_api = client.CustomObjectsApi().
Connect(kubeconfig_path, incluster, kubeconfig) ==
  /\ LET kube_path == IF kubeconfig_path = <<>> \/ kubeconfig_path[1] = ""
                         THEN config.kubeconfig_path
                         ELSE kubeconfig_path
         r         == setup_kubernetes_client(kube_path, incluster, kubeconfig)
     IN client' = [called |-> TRUE, incluster |-> incluster,
                   kubeconfig |-> kubeconfig, loads |-> r.loads,
                   kube_path |-> r.kube_path,
                   constructed |-> (r.error = "none"), error |-> r.error,
                   cause |-> r.cause]
  /\ UNCHANGED <<cluster, config, active_experiments, pc, op, w,
                 cleanup_errors, idx, exc_type, raised, observed, log, call,
                 chaos, parsed, run, ChaosConfig>>

\* ------------------------------------------------------- status and waits

\* BaseChaos.get_status: resource.get("status", {})
get_status(res) == res.status

\* status.get("conditions", [])
Conditions(status) == IF status.hasStatus THEN status.conditions ELSE <<>>

AllInjected_BugFirstOnly(status) ==
  LET cs == Conditions(status) IN
    /\ cs # <<>>
    /\ cs[1].type = "AllInjected"
    /\ cs[1].status = "True"

AllInjected_BugAnyTrue(status) ==
  LET cs == Conditions(status) IN
    \E i \in DOMAIN cs : cs[i].type = "AllInjected"

\* The for loop over the conditions: some condition has type "AllInjected"
\* and status "True".
AllInjected(status) ==
  LET cs == Conditions(status) IN
    \E i \in DOMAIN cs : cs[i].type = "AllInjected" /\ cs[i].status = "True"

\* timeout = timeout or config.wait_timeout (arguments are <<>> for None,
\* <<v>> for the value v)
OrDefault(arg, default) ==
  IF arg = <<>> \/ arg[1] = 0 THEN default ELSE arg[1]

LoopCondition_BugInclusive(elapsed, timeout) == elapsed <= timeout

\* while time.time() - start_time < timeout
LoopCondition(elapsed, timeout) == elapsed < timeout

\* The frame of a wait that has not started.  at: "idle", "loop" (at the
\* while), "sleep" (before time.sleep), "done" (returned or raised: result).
\* lastHttp: the status the API server gave the last status request of this
\* wait (0: none yet).  polls: the status requests of this wait so far,
\* counted up to MaxPolls.  saw: a status request of this wait_for_injection
\* was answered with a status that reports AllInjected/True.  startApi:
\* config's API group and version when the wait started.  api: the group and
\* version of the last status request of this wait (<<>>: none yet).
NoWait ==
  [kind |-> "none", exp |-> "e1", timeout |-> 0, poll_interval |-> 0,
   elapsed |-> 0, at |-> "idle", result |-> "none", caller |-> "none",
   lastHttp |-> 0, polls |-> 0, saw |-> FALSE,
   startApi |-> <<DefaultConfig.api_group, DefaultConfig.api_version>>,
   api |-> <<>>]

\* start_time = time.time(): the frame at the loop head.
StartWait(kind, e, timeout, poll_interval, caller) ==
  [NoWait EXCEPT !.kind = kind, !.exp = e, !.timeout = timeout,
                 !.poll_interval = poll_interval, !.at = "loop",
                 !.caller = caller,
                 !.startApi = <<config.api_group, config.api_version>>]

InjectionPoll_BugKeepsPolling(err, status) ==
  IF err \in {"none", "ChaosResourceNotFoundError"} THEN "sleep" ELSE "raise"

InjectionPoll_BugNotFoundAborts(err, status) ==
  IF err = "none"
    THEN (IF AllInjected(status) THEN "return" ELSE "sleep")
    ELSE "raise"

\* One iteration body of wait_for_injection after its status request:
\* return True, fall through to time.sleep, or let the error propagate.
InjectionPoll(err, status) ==
  IF err = "none"
    THEN (IF AllInjected(status) THEN "return" ELSE "sleep")
  ELSE IF err = "ChaosResourceNotFoundError" THEN "sleep"
  ELSE "raise"

DeletionPoll_BugReturnWhenPresent(err) ==
  IF err = "none" THEN "return"
  ELSE IF err = "ChaosResourceNotFoundError" THEN "return"
  ELSE "raise"

DeletionPoll_BugErrorsTransient(err) ==
  IF err = "ChaosResourceNotFoundError" THEN "return" ELSE "sleep"

\* One iteration body of wait_for_deletion after its status request.
DeletionPoll(err) ==
  IF err = "none" THEN "sleep"
  ELSE IF err = "ChaosResourceNotFoundError" THEN "return"
  ELSE "raise"

\* One loop iteration whose condition holds: the status request (which takes
\* d seconds and may fail in transport; ChaosClient.get_chaos_resource reads
\* config.api_group and config.api_version for it) and what the loop body
\* does with it.
WaitPoll ==
  /\ pc = "wait"
  /\ w.at = "loop"
  /\ LoopCondition(w.elapsed, w.timeout)
  /\ \E fail \in BOOLEAN, d \in 0..MaxLatency :
       LET res    == cluster[w.exp]
           http   == Http("get", res, fail)
           err    == get_chaos_resource(http)
           status == get_status(res)
           next   == IF w.kind = "injection" THEN InjectionPoll(err, status)
                                             ELSE DeletionPoll(err)
       IN w' = [w EXCEPT
                  !.elapsed = @ + d,
                  !.lastHttp = http,
                  !.api = <<config.api_group, config.api_version>>,
                  !.polls = IF @ < MaxPolls THEN @ + 1 ELSE @,
                  !.saw = @ \/ ( /\ w.kind = "injection"
                                 /\ http = 200
                                 /\ ReportsAllInjected(res.status) ),
                  !.at = IF next = "sleep" THEN "sleep" ELSE "done",
                  !.result = IF next = "return" THEN "True"
                             ELSE IF next = "raise" THEN err
                             ELSE "none"]
  /\ UNCHANGED <<cluster, config, active_experiments, pc, op, cleanup_errors,
                 idx, exc_type, raised, observed, log, call, chaos, parsed,
                 client, run, ChaosConfig>>

\* time.sleep(poll_interval)
WaitSleep ==
  /\ pc = "wait"
  /\ w.at = "sleep"
  /\ w' = [w EXCEPT !.elapsed = @ + w.poll_interval, !.at = "loop"]
  /\ UNCHANGED <<cluster, config, active_experiments, pc, op, cleanup_errors,
                 idx, exc_type, raised, observed, log, call, chaos, parsed,
                 client, run, ChaosConfig>>

WaitTimeout_BugUntracks ==
  /\ pc = "wait"
  /\ w.at = "loop"
  /\ ~LoopCondition(w.elapsed, w.timeout)
  /\ w' = [w EXCEPT !.at = "done", !.result = "ExperimentTimeoutError"]
  /\ active_experiments' = SelectSeq(active_experiments, LAMBDA x : x # w.exp)
  /\ UNCHANGED <<cluster, config, pc, op, cleanup_errors, idx, exc_type,
                 raised, observed, log, call, chaos, parsed, client, run,
                 ChaosConfig>>

\* The loop condition fails: raise ExperimentTimeoutError.
WaitTimeout ==
  /\ pc = "wait"
  /\ w.at = "loop"
  /\ ~LoopCondition(w.elapsed, w.timeout)
  /\ w' = [w EXCEPT !.at = "done", !.result = "ExperimentTimeoutError"]
  /\ UNCHANGED <<cluster, config, active_experiments, pc, op, cleanup_errors,
                 idx, exc_type, raised, observed, log, call, chaos, parsed,
                 client, run, ChaosConfig>>

\* ------------------------------------------------------------- controller

NoOp == [name |-> "none", exp |-> "e1"]

\* What one cleanup pass did.  tracked: the tracked list the pass started
\* from; steps: one entry per delete request, in order, with whether the
\* request failed in transport and whether wait_for_deletion was then called;
\* warnings: "Deletion verification failed" warnings; summaries: "Cleanup
\* completed with n errors" warnings; escaped: the error that left __exit__.
NoLog ==
  [tracked |-> <<>>, steps |-> <<>>, warnings |-> 0, summaries |-> 0,
   escaped |-> "none"]

\* list.remove(x): the list without its first occurrence of x
RECURSIVE RemoveFirst(_, _)
RemoveFirst(s, x) ==
  IF s = <<>> THEN <<>>
  ELSE IF Head(s) = x THEN Tail(s)
  ELSE <<Head(s)>> \o RemoveFirst(Tail(s), x)

InSeq(s, x) == \E i \in 1..Len(s) : s[i] = x

\* An operation of the scope body ends: it returned (err = "none") or raised.
Finish(err) ==
  /\ pc' = "body"
  /\ op' = NoOp
  /\ raised' = err
  /\ w' = NoWait

\* Optional arguments of the waits: None, or a value.
OptArgs == {<<>>} \cup {<<v>> : v \in 0..MaxTimeout}

Inject_BugWaitBeforeTrack(e, wait, timeout) ==
  /\ pc = "body"
  /\ Len(active_experiments) < MaxTracked
  /\ \E fail \in BOOLEAN :
       LET http == Http("create", cluster[e], fail)
           err  == create_chaos_resource(http)
       IN /\ cluster' = [cluster EXCEPT ![e] = AfterRequest("create", @, http)]
          /\ IF err # "none"
               THEN /\ Finish(err)
                    /\ UNCHANGED active_experiments
               ELSE IF wait
                 THEN /\ pc' = "wait"
                      /\ op' = [name |-> "inject", exp |-> e]
                      /\ w' = StartWait("injection", e,
                                        OrDefault(timeout, config.wait_timeout),
                                        OrDefault(<<>>, config.poll_interval),
                                        "inject")
                      /\ raised' = "none"
                      /\ UNCHANGED active_experiments
                 ELSE /\ active_experiments' = Append(active_experiments, e)
                      /\ Finish("none")
  /\ UNCHANGED <<config, cleanup_errors, idx, exc_type, observed, log, call,
                 chaos, parsed, client, run, ChaosConfig>>

\* ChaosController.inject(chaos, wait, timeout)
Inject(e, wait, timeout) ==
  /\ pc = "body"
  /\ Len(active_experiments) < MaxTracked
  /\ \E fail \in BOOLEAN :
       LET http == Http("create", cluster[e], fail)
           err  == create_chaos_resource(http)
       IN /\ cluster' = [cluster EXCEPT ![e] = AfterRequest("create", @, http)]
          /\ IF err # "none"
               THEN /\ Finish(err)
                    /\ UNCHANGED active_experiments
               ELSE /\ active_experiments' = Append(active_experiments, e)
                    /\ IF wait
                         THEN /\ pc' = "wait"
                              /\ op' = [name |-> "inject", exp |-> e]
                              /\ w' = StartWait("injection", e,
                                        OrDefault(timeout, config.wait_timeout),
                                        OrDefault(<<>>, config.poll_interval),
                                        "inject")
                              /\ raised' = "none"
                         ELSE Finish("none")
  /\ UNCHANGED <<config, cleanup_errors, idx, exc_type, observed, log, call,
                 chaos, parsed, client, run, ChaosConfig>>

\* BaseChaos.apply(client), called by the caller itself
Apply(e) ==
  /\ pc = "body"
  /\ \E fail \in BOOLEAN :
       LET http == Http("create", cluster[e], fail)
       IN /\ cluster' = [cluster EXCEPT ![e] = AfterRequest("create", @, http)]
          /\ Finish(create_chaos_resource(http))
  /\ UNCHANGED <<config, active_experiments, cleanup_errors, idx, exc_type,
                 observed, log, call, chaos, parsed, client, run, ChaosConfig>>

\* BaseChaos.delete(client), called by the caller itself
Delete(e) ==
  /\ pc = "body"
  /\ \E fail \in BOOLEAN :
       LET http == Http("delete", cluster[e], fail)
       IN /\ cluster' = [cluster EXCEPT ![e] = AfterRequest("delete", @, http)]
          /\ Finish(delete_chaos_resource(http))
  /\ UNCHANGED <<config, active_experiments, cleanup_errors, idx, exc_type,
                 observed, log, call, chaos, parsed, client, run, ChaosConfig>>

\* chaos.wait_for_injection(client, timeout, poll_interval) called by the
\* scope body itself
CallWaitForInjection(e, timeout, poll_interval) ==
  /\ pc = "body"
  /\ pc' = "wait"
  /\ op' = [name |-> "wait_for_injection", exp |-> e]
  /\ w' = StartWait("injection", e,
                    OrDefault(timeout, config.wait_timeout),
                    OrDefault(poll_interval, config.poll_interval), "body")
  /\ raised' = "none"
  /\ UNCHANGED <<cluster, config, active_experiments, cleanup_errors, idx,
                 exc_type, observed, log, call, chaos, parsed, client, run,
                 ChaosConfig>>

\* chaos.wait_for_deletion(client, timeout, poll_interval) called by the
\* scope body itself
CallWaitForDeletion(e, timeout, poll_interval) ==
  /\ pc = "body"
  /\ pc' = "wait"
  /\ op' = [name |-> "wait_for_deletion", exp |-> e]
  /\ w' = StartWait("deletion", e, timeout, poll_interval, "body")
  /\ raised' = "none"
  /\ UNCHANGED <<cluster, config, active_experiments, cleanup_errors, idx,
                 exc_type, observed, log, call, chaos, parsed, client, run,
                 ChaosConfig>>

WaitReturn_BugUntrackOnFailure ==
  /\ pc = "wait"
  /\ w.at = "done"
  /\ w.caller \in {"inject", "body"}
  /\ Finish(IF w.result = "True" THEN "none" ELSE w.result)
  /\ active_experiments' =
       IF w.caller = "inject" /\ w.result # "True"
         THEN RemoveFirst(active_experiments, op.exp)
         ELSE active_experiments
  /\ UNCHANGED <<cluster, config, cleanup_errors, idx, exc_type, observed, log,
                 call, chaos, parsed, client, run, ChaosConfig>>

\* A wait called by inject or by the scope body returns True or raises.
WaitReturn ==
  /\ pc = "wait"
  /\ w.at = "done"
  /\ w.caller \in {"inject", "body"}
  /\ Finish(IF w.result = "True" THEN "none" ELSE w.result)
  /\ UNCHANGED <<cluster, config, active_experiments, cleanup_errors, idx,
                 exc_type, observed, log, call, chaos, parsed, client, run,
                 ChaosConfig>>

\* ChaosController.remove(chaos, wait_for_deletion), to the end or to the
\* call of wait_for_deletion
Remove(e, wait_for_deletion) ==
  /\ pc = "body"
  /\ \E fail \in BOOLEAN :
       LET http == Http("delete", cluster[e], fail)
           err  == delete_chaos_resource(http)
       IN /\ cluster' = [cluster EXCEPT ![e] = AfterRequest("delete", @, http)]
          /\ IF err # "none"
               THEN /\ Finish(err)
                    /\ UNCHANGED active_experiments
               ELSE IF wait_for_deletion
                 THEN /\ pc' = "wait"
                      /\ op' = [name |-> "remove", exp |-> e]
                      /\ w' = StartWait("deletion", e, DeletionTimeout,
                                        DeletionPollInterval, "remove")
                      /\ raised' = "none"
                      /\ UNCHANGED active_experiments
                 ELSE /\ active_experiments' = RemoveFirst(active_experiments, e)
                      /\ Finish("none")
  /\ UNCHANGED <<config, cleanup_errors, idx, exc_type, observed, log, call,
                 chaos, parsed, client, run, ChaosConfig>>

RemoveAfterWait_BugUntrackOnFailure ==
  /\ pc = "wait"
  /\ w.at = "done"
  /\ w.caller = "remove"
  /\ active_experiments' = RemoveFirst(active_experiments, op.exp)
  /\ Finish(IF w.result = "True" THEN "none" ELSE w.result)
  /\ UNCHANGED <<cluster, config, cleanup_errors, idx, exc_type, observed, log,
                 call, chaos, parsed, client, run, ChaosConfig>>

\* remove, from the return of wait_for_deletion on
RemoveAfterWait ==
  /\ pc = "wait"
  /\ w.at = "done"
  /\ w.caller = "remove"
  /\ IF w.result = "True"
       THEN /\ active_experiments' = RemoveFirst(active_experiments, op.exp)
            /\ Finish("none")
       ELSE /\ Finish(w.result)
            /\ UNCHANGED active_experiments
  /\ UNCHANGED <<cluster, config, cleanup_errors, idx, exc_type, observed, log,
                 call, chaos, parsed, client, run, ChaosConfig>>

\* -------------------------------------------------- __exit__ / cleanup_all

\* Entry of __exit__(exc_type, ...): cleanup_errors = [], then the for loop.
BeginExit(name, exc) ==
  /\ pc' = "exit"
  /\ op' = [name |-> name, exp |-> "e1"]
  /\ exc_type' = exc
  /\ cleanup_errors' = <<>>
  /\ idx' = 1
  /\ raised' = "none"
  /\ log' = [NoLog EXCEPT !.tracked = active_experiments]
  /\ UNCHANGED <<cluster, config, active_experiments, w, observed, call, chaos,
                 parsed, client, run, ChaosConfig>>

\* The with block ends normally.
ScopeEnd ==
  /\ pc = "body"
  /\ BeginExit("__exit__", "none")

\* A failure leaves the with block: the error of the last operation, which
\* the body did not catch, or an error of the body's own (a failed test
\* assertion).
ScopeRaise ==
  /\ pc = "body"
  /\ BeginExit("__exit__", IF raised # "none" THEN raised ELSE "AssertionError")

CleanupAll_BugPassesError ==
  /\ pc = "body"
  /\ BeginExit("cleanup_all", "AssertionError")

\* ChaosController.cleanup_all: self.__exit__(None, None, None)
CleanupAll ==
  /\ pc = "body"
  /\ BeginExit("cleanup_all", "none")

ExitDeleteRaised_BugBreak(errors, i, n, e, err) ==
  [errors |-> Append(errors, e), idx |-> n + 1, escaped |-> "none"]

ExitDeleteRaised_BugEscapes(errors, i, n, e, err) ==
  [errors |-> errors, idx |-> i, escaped |-> err]

\* chaos.delete raised err at position i of n: the outer handler
\* (except Exception) appends the message naming e; the loop goes on.
ExitDeleteRaised(errors, i, n, e, err) ==
  [errors |-> Append(errors, e), idx |-> i + 1, escaped |-> "none"]

ExitWaitRaised_BugEscalates(errors, i, n, e, err) ==
  [errors |-> Append(errors, e), idx |-> i + 1, escaped |-> "none",
   warnings |-> 0]

ExitWaitRaised_BugRepeats(errors, i, n, e, err) ==
  [errors |-> errors, idx |-> i, escaped |-> "none", warnings |-> 1]

\* chaos.wait_for_deletion raised err: the inner handler (except Exception)
\* logs one warning; the loop goes on.
ExitWaitRaised(errors, i, n, e, err) ==
  [errors |-> errors, idx |-> i + 1, escaped |-> "none", warnings |-> 1]

\* wait_for_deletion follows chaos.delete inside the try: it is called when
\* delete returned.
ExitCallsWait(err) == err = "none"

\* One iteration of the for loop, to its end or to the call of
\* wait_for_deletion.
ExitDelete ==
  /\ pc = "exit"
  /\ idx <= Len(active_experiments)
  /\ \E fail \in BOOLEAN :
       LET e    == active_experiments[idx]
           http == Http("delete", cluster[e], fail)
           err  == delete_chaos_resource(http)
           h    == ExitDeleteRaised(cleanup_errors, idx,
                                    Len(active_experiments), e, err)
       IN /\ cluster' = [cluster EXCEPT ![e] = AfterRequest("delete", @, http)]
          /\ IF err # "none"
               THEN /\ cleanup_errors' = h.errors
                    /\ idx' = h.idx
                    /\ pc' = IF h.escaped = "none" THEN "exit" ELSE "exit_return"
                    /\ log' = [log EXCEPT
                                !.steps = Append(@, [exp |-> e, failed |-> fail,
                                                     waited |-> FALSE]),
                                !.escaped = h.escaped]
                    /\ UNCHANGED w
               ELSE IF ExitCallsWait(err)
                 THEN /\ pc' = "wait"
                      /\ w' = StartWait("deletion", e, ExitTimeout,
                                        DeletionPollInterval, "exit")
                      /\ log' = [log EXCEPT
                                  !.steps = Append(@, [exp |-> e, failed |-> fail,
                                                       waited |-> TRUE])]
                      /\ UNCHANGED <<cleanup_errors, idx>>
                 ELSE /\ idx' = idx + 1
                      /\ log' = [log EXCEPT
                                  !.steps = Append(@, [exp |-> e, failed |-> fail,
                                                       waited |-> FALSE])]
                      /\ UNCHANGED <<pc, w, cleanup_errors>>
  /\ UNCHANGED <<config, active_experiments, op, exc_type, raised, observed,
                 call, chaos, parsed, client, run, ChaosConfig>>

\* The iteration from the return of wait_for_deletion on.
ExitAfterWait ==
  /\ pc = "wait"
  /\ w.at = "done"
  /\ w.caller = "exit"
  /\ LET h == ExitWaitRaised(cleanup_errors, idx, Len(active_experiments),
                             w.exp, w.result)
     IN IF w.result = "True"
          THEN /\ idx' = idx + 1
               /\ pc' = "exit"
               /\ UNCHANGED <<cleanup_errors, log>>
          ELSE /\ cleanup_errors' = h.errors
               /\ idx' = h.idx
               /\ pc' = IF h.escaped = "none" THEN "exit" ELSE "exit_return"
               /\ log' = [log EXCEPT !.warnings = @ + h.warnings,
                                     !.escaped = h.escaped]
  /\ w' = NoWait
  /\ UNCHANGED <<cluster, config, active_experiments, op, exc_type, raised,
                 observed, call, chaos, parsed, client, run, ChaosConfig>>

ClearTracked_BugKeepFailed(tracked, errors) ==
  SelectSeq(tracked, LAMBDA e : InSeq(errors, e))

\* self.active_experiments.clear()
ClearTracked(tracked, errors) == <<>>

\* if cleanup_errors: logger.warning("Cleanup completed with n errors ...")
SummaryWarnings(errors) == IF errors # <<>> THEN 1 ELSE 0

\* After the for loop: clear the list, log the summary.
ExitFinish ==
  /\ pc = "exit"
  /\ idx > Len(active_experiments)
  /\ active_experiments' = ClearTracked(active_experiments, cleanup_errors)
  /\ log' = [log EXCEPT !.summaries = @ + SummaryWarnings(cleanup_errors)]
  /\ pc' = "exit_return"
  /\ UNCHANGED <<cluster, config, op, w, cleanup_errors, idx, exc_type, raised,
                 observed, call, chaos, parsed, client, run, ChaosConfig>>

ExitReturnValue_BugSuppress == TRUE

\* return False: do not suppress the exception of the with block
ExitReturnValue == FALSE

\* What the with statement leaves its caller with: an error that left
\* __exit__ replaces the one of the block; a true return value suppresses it.
WithStatement(exc, escaped, suppress) ==
  IF escaped # "none" THEN escaped
  ELSE IF suppress THEN "none"
  ELSE exc

\* __exit__ returns (or raises): to cleanup_all and the scope body, where its
\* frame is gone, or to the caller of the with statement, the final state.
ExitReturn ==
  /\ pc = "exit_return"
  /\ IF op.name = "cleanup_all"
       THEN /\ Finish(log.escaped)
            /\ cleanup_errors' = <<>>
            /\ idx' = 1
            /\ log' = NoLog
            /\ UNCHANGED observed
       ELSE /\ pc' = "done"
            /\ observed' = WithStatement(exc_type, log.escaped, ExitReturnValue)
            /\ UNCHANGED <<op, raised, w, cleanup_errors, idx, log>>
  /\ UNCHANGED <<cluster, config, active_experiments, exc_type, call, chaos,
                 parsed, client, run, ChaosConfig>>

\* ------------------------------------------------------------ environment

\* The reconciler writes a status on a resource.
Reconcile(e, st) ==
  /\ pc # "done"
  /\ cluster[e].exists
  /\ ~cluster[e].deleting
  /\ cluster[e].status # st
  /\ cluster' = [cluster EXCEPT ![e].status = st]
  /\ UNCHANGED <<config, active_experiments, pc, op, w, cleanup_errors, idx,
                 exc_type, raised, observed, log, call, chaos, parsed, client,
                 run, ChaosConfig>>

\* The finalizers of a resource under deletion are done: it is gone.
Finalize(e) ==
  /\ pc # "done"
  /\ cluster[e].deleting
  /\ cluster' = [cluster EXCEPT ![e] = Absent]
  /\ UNCHANGED <<config, active_experiments, pc, op, w, cleanup_errors, idx,
                 exc_type, raised, observed, log, call, chaos, parsed, client,
                 run, ChaosConfig>>

\* Someone else deletes a resource (the open question of the design notes).
ThirdPartyDelete(e) ==
  /\ pc # "done"
  /\ cluster[e].exists
  /\ ~cluster[e].deleting
  /\ cluster' = [cluster EXCEPT ![e].deleting = TRUE]
  /\ UNCHANGED <<config, active_experiments, pc, op, w, cleanup_errors, idx,
                 exc_type, raised, observed, log, call, chaos, parsed, client,
                 run, ChaosConfig>>

\* ------------------------------------------------------------------ strings

\* A Python str is the sequence of its characters; an Optional[str] is <<>>
\* for None and <<s>> for the string s.
Str(chars, n) == UNION {[1..k -> chars] : k \in 0..n}

\* The characters \d matches, of those the model's strings are made of.
Digits == {"0", "1", "2", "3", "4", "5", "6", "7", "8", "9"}

DigitValue(c) ==
  CHOOSE d \in 0..9 : <<"0", "1", "2", "3", "4", "5", "6", "7", "8", "9">>[d + 1] = c

\* int() of a string of decimal digits (leading zeros allowed)
RECURSIVE DecimalValue(_)
DecimalValue(s) ==
  IF s = <<>> THEN 0
  ELSE 10 * DecimalValue(SubSeq(s, 1, Len(s) - 1)) + DigitValue(s[Len(s)])

\* The strings the model passes as value: over these characters int() and
\* float() read an optional sign, digits and at most one point.
ValueChars == {"-", ".", "0", "1", "3", "5"}

Values == {<<>>} \cup {<<s>> : s \in Str(ValueChars, MaxLen)}

\* The strings the model passes to parse_duration.
DurationChars == {"3", "s", "m", "h", "x", "\n"}

DurationStrings == Str(DurationChars, MaxLen)

\* The values the model constructs experiments with when it builds their
\* payloads: None, a count, a percentage.
CtorValues == { <<>>, << <<"3">> >>, << <<"5", "0">> >> }

\* The durations the model constructs experiments with: None, a duration,
\* the same with a newline after it, and a wrong unit.
CtorDurations ==
  { <<>>, << <<"3", "s">> >>, << <<"3", "s", "\n">> >>, << <<"3", "x">> >> }

\* The end of the text a pattern is matched against up to its final "$":
\* Python's $ (no MULTILINE) matches at the end of the string and also just
\* before a newline that ends the string.
DollarEnds(s) ==
  {Len(s)} \cup (IF s # <<>> /\ s[Len(s)] = "\n" THEN {Len(s) - 1} ELSE {})

\* re.match of ^\d+[smh]$ (base.py) and of ^(\d+)(s|m|h)$ (utils.py): the
\* match's groups (value, unit), or matched = FALSE.
DurationMatch(s) ==
  LET ends == {n \in DollarEnds(s) :
                 /\ n >= 2
                 /\ \A i \in 1..(n - 1) : s[i] \in Digits
                 /\ s[n] \in {"s", "m", "h"}}
  IN IF ends = {}
       THEN [matched |-> FALSE, value |-> <<>>, unit |-> "s"]
       ELSE LET n == CHOOSE n \in ends : TRUE
            IN [matched |-> TRUE, value |-> SubSeq(s, 1, n - 1), unit |-> s[n]]

\* multipliers = {'s': 1, 'm': 60, 'h': 3600}
multipliers(unit) ==
  IF unit = "s" THEN 1 ELSE IF unit = "m" THEN 60 ELSE 3600

\* utils.parse_duration: the seconds it returns, or the error it raises
parse_duration(duration) ==
  LET m == DurationMatch(duration)
  IN IF ~m.matched
       THEN [error |-> "ValueError", seconds |-> 0]
       ELSE [error |-> "none",
             seconds |-> DecimalValue(m.value) * multipliers(m.unit)]

\* BaseChaos.validate_duration_format(v): what it raises ("none": returns v)
validate_duration_format(v) ==
  IF v = <<>> THEN "none"
  ELSE IF ~DurationMatch(v[1]).matched THEN "ValueError"
  ELSE "none"

\* int(s): an optional sign and decimal digits
IntParse(s) ==
  LET neg  == s # <<>> /\ s[1] = "-"
      body == IF neg THEN Tail(s) ELSE s
      ok   == body # <<>> /\ \A i \in 1..Len(body) : body[i] \in Digits
  IN [ok |-> ok,
      value |-> IF ~ok THEN 0
                ELSE IF neg THEN 0 - DecimalValue(body) ELSE DecimalValue(body)]

\* float(s): an optional sign, digits with at most one point among them and
\* at least one digit.  The number is kept as its sign, its integer part and
\* whether its fraction is non-zero.
FloatParse(s) ==
  LET neg  == s # <<>> /\ s[1] = "-"
      body == IF neg THEN Tail(s) ELSE s
      dots == {i \in 1..Len(body) : body[i] = "."}
      ok   == /\ \A i \in 1..Len(body) : body[i] \in Digits \cup {"."}
              /\ Cardinality(dots) <= 1
              /\ \E i \in 1..Len(body) : body[i] \in Digits
      p    == IF dots = {} THEN Len(body) + 1 ELSE CHOOSE i \in dots : TRUE
  IN [ok |-> ok,
      neg |-> neg,
      int |-> IF ok THEN DecimalValue(SubSeq(body, 1, p - 1)) ELSE 0,
      frac |-> ok /\ \E i \in (p + 1)..Len(body) : body[i] # "0"]

\* 0 <= percentage <= 100
InPercentRange(f) ==
  /\ ~f.neg \/ (f.int = 0 /\ ~f.frac)
  /\ f.int < 100 \/ (f.int = 100 /\ ~f.frac)

\* not self.value: None or the empty string
Falsy(v) == v = <<>> \/ v[1] = <<>>

\* --------------------------------------------------- selector, experiment

\* class ChaosMode
ChaosMode == {"one", "all", "fixed", "fixed-percent", "random-max-percent"}

validate_mode_value_BugZeroCount(mode, value) ==
  IF mode \in {"fixed", "fixed-percent", "random-max-percent"} /\ Falsy(value)
    THEN "ValueError"
  ELSE IF mode \in {"fixed-percent", "random-max-percent"}
            /\ ~(FloatParse(value[1]).ok /\ InPercentRange(FloatParse(value[1])))
    THEN "ValueError"
  ELSE IF mode = "fixed"
            /\ ~(IntParse(value[1]).ok /\ IntParse(value[1]).value >= 0)
    THEN "ValueError"
  ELSE "none"

\* BaseChaos.validate_mode_value: what it raises ("none": returns self).
\* Each except clause raises a ValueError again, whatever the message.
validate_mode_value(mode, value) ==
  IF mode \in {"fixed", "fixed-percent", "random-max-percent"} /\ Falsy(value)
    THEN "ValueError"
  ELSE IF mode \in {"fixed-percent", "random-max-percent"}
            /\ ~(FloatParse(value[1]).ok /\ InPercentRange(FloatParse(value[1])))
    THEN "ValueError"
  ELSE IF mode = "fixed"
            /\ ~(IntParse(value[1]).ok /\ IntParse(value[1]).value > 0)
    THEN "ValueError"
  ELSE "none"

\* The arguments of ChaosSelector(...) in the model.  A list is a sequence, a
\* dict the set of its items; both are false when empty.  pods may map a
\* namespace to an empty list of names.
SelectorArgs ==
  [namespaces           : {<<>>, <<"ns">>},
   label_selectors      : {{}, {<<"app", "web">>},
                           {<<"app", "web">>, <<"tier", "frontend">>}},
   pods                 : {{}, {<<"ns", <<>>>>}, {<<"ns", <<"p1">>>>}},
   field_selectors      : {{}, {<<"status.phase", "Running">>},
                           {<<"status.phase", "Running">>,
                            <<"spec.nodeName", "n1">>}},
   annotation_selectors : {{}, {<<"team", "sre">>},
                           {<<"team", "sre">>, <<"env", "test">>}}]

\* ChaosSelector.from_labels(labels, namespaces) and
\* ChaosSelector.from_pods(namespace, pod_names): the arguments they pass on.
from_labels(labels, namespaces) ==
  [namespaces |-> namespaces, label_selectors |-> labels, pods |-> {},
   field_selectors |-> {}, annotation_selectors |-> {}]

from_pods(namespace, pod_names) ==
  [namespaces |-> <<namespace>>, label_selectors |-> {},
   pods |-> {<<namespace, pod_names>>}, field_selectors |-> {},
   annotation_selectors |-> {}]

\* The selectors the model constructs experiments with.
CtorSelectors ==
  { from_labels({<<"app", "web">>}, <<"ns">>), from_pods("ns", <<"p1">>) }

\* bool(d) of a dict
Truthy(d) == d # {}

validate_mutual_exclusivity_BugPodsWin(s) ==
  IF ~(Truthy(s.label_selectors) \/ Truthy(s.pods) \/ Truthy(s.field_selectors)
         \/ Truthy(s.annotation_selectors))
    THEN "AmbiguousSelectorError"
  ELSE "none"

\* ChaosSelector.validate_mutual_exclusivity: what it raises ("none":
\* returns self)
validate_mutual_exclusivity(s) ==
  IF Truthy(s.label_selectors) /\ Truthy(s.pods)
    THEN "AmbiguousSelectorError"
  ELSE IF ~(Truthy(s.label_selectors) \/ Truthy(s.pods)
              \/ Truthy(s.field_selectors) \/ Truthy(s.annotation_selectors))
    THEN "AmbiguousSelectorError"
  ELSE "none"

\* The keys of the selector dictionary and the field each one is set from.
SelectorKeys ==
  {"namespaces", "labelSelectors", "pods", "fieldSelectors",
   "annotationSelectors"}

SelectorField(s, k) ==
  CASE k = "namespaces"          -> s.namespaces
    [] k = "labelSelectors"      -> s.label_selectors
    [] k = "pods"                -> s.pods
    [] k = "fieldSelectors"      -> s.field_selectors
    [] k = "annotationSelectors" -> s.annotation_selectors

\* if self.<field>: of a list or dict field
FieldTruthy(s, k) ==
  IF k = "namespaces" THEN s.namespaces # <<>> ELSE Truthy(SelectorField(s, k))

to_crd_dict_BugAllKeys(s) ==
  [k \in SelectorKeys |-> SelectorField(s, k)]

\* ChaosSelector.to_crd_dict: the dictionary, a function on the keys it
\* holds; a key is set when its field is true.
to_crd_dict(s) ==
  [k \in {key \in SelectorKeys : FieldTruthy(s, key)} |-> SelectorField(s, k)]

\* No ChaosSelector constructed yet.  called: the constructor was called;
\* built: it returned an object; error: what it raised; crd: what the last
\* call of to_crd_dict on it returned (<<>>: not called).
NoSelector ==
  [called |-> FALSE, built |-> FALSE, error |-> "none",
   args |-> [namespaces |-> <<>>, label_selectors |-> {}, pods |-> {},
             field_selectors |-> {}, annotation_selectors |-> {}],
   crd |-> <<>>]

\* time.time() returns seconds as a float: the model's clock counts halves
\* of a second, from Epoch seconds on.
TicksPerSecond == 2

Epoch == 9

\* str.lower() of the experiment class names
Lower(kind) ==
  CASE kind = "PodChaos" -> "podchaos"
    [] kind = "NetworkChaos" -> "networkchaos"

DigitChar(d) == <<"0", "1", "2", "3", "4", "5", "6", "7", "8", "9">>[d + 1]

\* str() of a non-negative int: its decimal digits
RECURSIVE Decimal(_)
Decimal(n) ==
  IF n < 10 THEN <<DigitChar(n)>>
  ELSE Decimal(n \div 10) \o <<DigitChar(n % 10)>>

\* The clock time.time() reads, in ticks of half a second; int() truncates
\* it to whole seconds.
int_time(now) == now \div TicksPerSecond

\* What time.time() can return when an experiment is constructed.
Times == {Epoch * TicksPerSecond + k : k \in 0..MaxClock}

\* generate_unique_name(prefix): f"{prefix}-{timestamp}" with
\* timestamp = int(time.time()); the pieces of the string, then its digits.
generate_unique_name(prefix, now) == <<prefix, "-">> \o Decimal(int_time(now))

generate_name_if_missing_BugKeepsNone(name, kind, now) ==
  IF name = <<>> THEN <<>> ELSE name[1]

\* BaseChaos.generate_name_if_missing: the name field after the validator,
\* given the name argument (<<>>: None).
generate_name_if_missing(name, kind, now) ==
  IF name = <<>> THEN generate_unique_name(Lower(kind), now) ELSE name[1]

\* The name arguments of the constructor: None, or an explicit name.
CtorNames == {<<>>, << <<"e1">> >>}

\* No experiment constructed yet.  The experiment of the model is a PodChaos
\* of action pod-kill in namespace "default"; unless constructed otherwise
\* it has the explicit name "e1".  given, now: the name argument of the
\* constructor and the clock at construction.
\* payloads: what the calls of to_crd made by hand returned, in order.
NoChaos ==
  [selector |-> NoSelector, called |-> FALSE, built |-> FALSE,
   error |-> "none", mode |-> "one", value |-> <<>>, duration |-> <<>>,
   kind |-> "PodChaos", name |-> <<"e1">>, namespace |-> "default",
   action |-> "pod-kill", payloads |-> <<>>,
   given |-> << <<"e1">> >>, now |-> Epoch * TicksPerSecond]

\* What the requests of an experiment's methods address: kind, namespace,
\* name, read from the experiment when the request is made.
Target(c) == <<c.kind, c.namespace, c.name>>

\* PodChaos._build_action_spec: the action (the optional fields are None)
build_action_spec(c) == c.action

\* BaseChaos.to_crd when the process-wide configuration is cfg.  apiVersion
\* is f"{api_group}/{api_version}", here the tuple of its three parts; in
\* spec, value and duration are set when not None.
Crd(c, cfg) ==
  [apiVersion |-> <<cfg.api_group, "/", cfg.api_version>>,
   kind       |-> c.kind,
   metadata   |-> [name |-> c.name, namespace |-> c.namespace],
   spec       |-> [selector |-> to_crd_dict(c.selector.args), mode |-> c.mode,
                   value |-> c.value, duration |-> c.duration,
                   action |-> build_action_spec(c)]]

\* BaseChaos.to_crd: it reads config.api_group and config.api_version when
\* it is called.
to_crd(c) == Crd(c, config)

\* The body of a create request made without an experiment.
NoBody == Crd(NoChaos, DefaultConfig)

\* ChaosSelector(**args): pydantic sets the fields, then runs the model
\* validator.
NewSelector(args) ==
  /\ ~chaos.selector.called
  /\ LET err == validate_mutual_exclusivity(args)
     IN chaos' = [chaos EXCEPT !.selector =
                    [called |-> TRUE, built |-> err = "none", error |-> err,
                     args |-> args, crd |-> <<>>]]
  /\ UNCHANGED <<cluster, config, active_experiments, pc, op, w,
                 cleanup_errors, idx, exc_type, raised, observed, log, call,
                 parsed, client, run, ChaosConfig>>

\* selector.to_crd_dict() called by hand on the selector constructed
SelectorToCrdDict ==
  /\ chaos.selector.built
  /\ chaos.selector.crd = <<>>
  /\ chaos' = [chaos EXCEPT !.selector.crd = <<to_crd_dict(chaos.selector.args)>>]
  /\ UNCHANGED <<cluster, config, active_experiments, pc, op, w,
                 cleanup_errors, idx, exc_type, raised, observed, log, call,
                 parsed, client, run, ChaosConfig>>

\* The constructor of an experiment class, given the selector built before:
\* pydantic runs the field validator of duration, then, if no field failed,
\* the model validators validate_mode_value and generate_name_if_missing
\* (which reads the clock: now).
NewChaos(name, now, mode, value, duration) ==
  /\ chaos.selector.built
  /\ ~chaos.called
  /\ LET field == validate_duration_format(duration)
         err   == IF field # "none" THEN field
                  ELSE validate_mode_value(mode, value)
     IN chaos' = [chaos EXCEPT
                    !.called = TRUE, !.built = (err = "none"),
                    !.error = err, !.mode = mode, !.value = value,
                    !.duration = duration, !.given = name, !.now = now,
                    !.name = IF err = "none"
                               THEN generate_name_if_missing(name, chaos.kind,
                                                             now)
                               ELSE <<>>]
  /\ UNCHANGED <<cluster, config, active_experiments, pc, op, w,
                 cleanup_errors, idx, exc_type, raised, observed, log, call,
                 parsed, client, run, ChaosConfig>>

\* chaos.to_crd() called by hand on the experiment constructed
ToCrd ==
  /\ chaos.built
  /\ Len(chaos.payloads) < MaxBuilds
  /\ chaos' = [chaos EXCEPT !.payloads = Append(@, to_crd(chaos))]
  /\ UNCHANGED <<cluster, config, active_experiments, pc, op, w,
                 cleanup_errors, idx, exc_type, raised, observed, log, call,
                 parsed, client, run, ChaosConfig>>

\* No call of parse_duration yet.
NoParse == [called |-> FALSE, input |-> <<>>, error |-> "none", seconds |-> 0]

\* parse_duration(duration) called by hand
ParseDuration(duration) ==
  /\ LET r == parse_duration(duration)
     IN parsed' = [called |-> TRUE, input |-> duration, error |-> r.error,
                   seconds |-> r.seconds]
  /\ UNCHANGED <<cluster, config, active_experiments, pc, op, w,
                 cleanup_errors, idx, exc_type, raised, observed, log, call,
                 chaos, client, run, ChaosConfig>>

\* ------------------------------------------------- client calls and retry

\* The frame of a ChaosClient call made by hand.  at: "idle", "attempt" (the
\* retry decorator is about to call the function), "done" (the call returned
\* or raised: result); attempt: the decorator's attempt number; requests:
\* requests issued so far; lastHttp: the status of the last one; body: the
\* body of a create.
NoCall ==
  [fn |-> "none", exp |-> "e1", at |-> "idle", attempt |-> 0, requests |-> 0,
   lastHttp |-> 0, result |-> "none", body |-> NoBody, target |-> <<>>]

retry_if_exception_type_BugAnyException(err) == err # "none"

\* retry=retry_if_exception_type(ApiException): the decorator calls the
\* function again when what it raised is an ApiException.
retry_if_exception_type(err) == err = "ApiException"

\* stop=stop_after_attempt(... config.retry_max_attempts)
stop_after_attempt(attempt) == attempt >= RetryMaxAttempts

\* The @retry decorator after an attempt that raised err ("none": returned):
\* the result goes to the caller, or the function is called again, or (no
\* reraise=True) RetryError is raised.
Retrying(err, attempt) ==
  IF ~retry_if_exception_type(err) THEN err
  ELSE IF stop_after_attempt(attempt) THEN "RetryError"
  ELSE "again"

\* client.create_chaos_resource(kind, namespace, body)
CreateCall(e, body) ==
  /\ call.at # "attempt"
  /\ \E fail \in BOOLEAN :
       LET http == Http("create", cluster[e], fail)
       IN /\ cluster' = [cluster EXCEPT ![e] = AfterRequest("create", @, http)]
          /\ call' = [NoCall EXCEPT !.fn = "create", !.exp = e, !.at = "done",
                                    !.attempt = 1, !.requests = 1,
                                    !.lastHttp = http,
                                    !.result = create_chaos_resource(http),
                                    !.body = body]
  /\ UNCHANGED <<config, active_experiments, pc, op, w, cleanup_errors, idx,
                 exc_type, raised, observed, log, chaos, parsed, client, run,
                 ChaosConfig>>

\* client.delete_chaos_resource(kind, namespace, name)
DeleteCall(e) ==
  /\ call.at # "attempt"
  /\ \E fail \in BOOLEAN :
       LET http == Http("delete", cluster[e], fail)
       IN /\ cluster' = [cluster EXCEPT ![e] = AfterRequest("delete", @, http)]
          /\ call' = [NoCall EXCEPT !.fn = "delete", !.exp = e, !.at = "done",
                                    !.attempt = 1, !.requests = 1,
                                    !.lastHttp = http,
                                    !.result = delete_chaos_resource(http)]
  /\ UNCHANGED <<config, active_experiments, pc, op, w, cleanup_errors, idx,
                 exc_type, raised, observed, log, chaos, parsed, client, run,
                 ChaosConfig>>

\* client.get_chaos_resource(kind, namespace, name) is called: the decorator
\* starts its first attempt.
GetCall(e) ==
  /\ call.at # "attempt"
  /\ call' = [NoCall EXCEPT !.fn = "get", !.exp = e, !.at = "attempt",
                            !.attempt = 1]
  /\ UNCHANGED <<cluster, config, active_experiments, pc, op, w,
                 cleanup_errors, idx, exc_type, raised, observed, log, chaos,
                 parsed, client, run, ChaosConfig>>

\* client.list_chaos_resources(kind, namespace) is called.
ListCall ==
  /\ call.at # "attempt"
  /\ call' = [NoCall EXCEPT !.fn = "list", !.at = "attempt", !.attempt = 1]
  /\ UNCHANGED <<cluster, config, active_experiments, pc, op, w,
                 cleanup_errors, idx, exc_type, raised, observed, log, chaos,
                 parsed, client, run, ChaosConfig>>

\* One attempt of the decorated get or list: the request, the translation of
\* its failure inside the function, and the decorator's decision.
ClientAttempt ==
  /\ call.at = "attempt"
  /\ \E fail \in BOOLEAN :
       LET http == Http(call.fn, cluster[call.exp], fail)
           err  == IF call.fn = "get" THEN get_chaos_resource(http)
                                      ELSE list_chaos_resources(http)
           r    == Retrying(err, call.attempt)
       IN call' = [call EXCEPT
                     !.requests = @ + 1,
                     !.lastHttp = http,
                     !.attempt = IF r = "again" THEN @ + 1 ELSE @,
                     !.at = IF r = "again" THEN "attempt" ELSE "done",
                     !.result = IF r = "again" THEN "none" ELSE r]
  /\ UNCHANGED <<cluster, config, active_experiments, pc, op, w,
                 cleanup_errors, idx, exc_type, raised, observed, log, chaos,
                 parsed, client, run, ChaosConfig>>

\* chaos.apply(client) of the experiment constructed: to_crd, then the create
\* request.
ApplyChaos ==
  /\ chaos.built
  /\ CreateCall("e1", to_crd(chaos))

\* chaos.delete(client) of the experiment constructed:
\* client.delete_chaos_resource(kind, self.namespace, self.name)
DeleteChaos ==
  /\ chaos.built
  /\ call.at # "attempt"
  /\ \E fail \in BOOLEAN :
       LET http == Http("delete", cluster["e1"], fail)
       IN /\ cluster' = [cluster EXCEPT
                           !["e1"] = AfterRequest("delete", @, http)]
          /\ call' = [NoCall EXCEPT !.fn = "delete", !.at = "done",
                                    !.attempt = 1, !.requests = 1,
                                    !.lastHttp = http,
                                    !.result = delete_chaos_resource(http),
                                    !.target = Target(chaos)]
  /\ UNCHANGED <<config, active_experiments, pc, op, w, cleanup_errors, idx,
                 exc_type, raised, observed, log, chaos, parsed, client, run,
                 ChaosConfig>>

\* chaos.get_status(client) of the experiment constructed, which the waits
\* call once per iteration:
\* client.get_chaos_resource(kind, self.namespace, self.name) is called.
GetStatusChaos ==
  /\ chaos.built
  /\ call.at # "attempt"
  /\ call' = [NoCall EXCEPT !.fn = "get", !.at = "attempt", !.attempt = 1,
                            !.target = Target(chaos)]
  /\ UNCHANGED <<cluster, config, active_experiments, pc, op, w,
                 cleanup_errors, idx, exc_type, raised, observed, log, chaos,
                 parsed, client, run, ChaosConfig>>

\* ------------------------------------- the lifecycle, twice implemented

\* The lifecycle methods that BaseChaos and ChaosManager both define.
Methods ==
  {"apply", "delete", "get_status", "wait_for_injection", "wait_for_deletion"}

Waits == {"wait_for_injection", "wait_for_deletion"}

\* The answers the API server can give a request of a verb: the HTTP status,
\* for a get answered 200 the resource's status, and the seconds it takes.
Replies(verb) ==
  LET Codes == IF verb = "create" THEN {201, 409, 500} ELSE {200, 404, 500}
      Sts   == IF verb = "get" THEN ScopeStatuses ELSE {NoStatus}
  IN { [http |-> h, status |-> IF h = 200 THEN st ELSE NoStatus, d |-> d] :
         h \in Codes, st \in Sts, d \in 0..MaxLatency }

\* The answer to the i-th request of a run.
Reply(replies, i) == replies[((i - 1) % Len(replies)) + 1]

\* A client request as the client receives it: kind, namespace, and the
\* name or (create) the body.
Request(verb, kind, namespace, name, body) ==
  [verb |-> verb, kind |-> kind, namespace |-> namespace, name |-> name,
   body |-> body]

\* What a run of a method did: the requests it issued, in order (polls
\* counts the status requests of a wait, all alike), the calls of
\* time.sleep, what it raised ("none": it returned), what it returned
\* (status: the mapping get_status returned), and what the message of its
\* ExperimentTimeoutError states.
Result(requests, err, returned, status) ==
  [requests |-> requests, polls |-> 0, sleeps |-> 0, raised |-> err,
   returned |-> returned, status |-> status, carries |-> {}]

\* BaseChaos.apply(client)
BaseChaos_apply(c, replies) ==
  LET err == create_chaos_resource(Reply(replies, 1).http)
  IN Result(<<Request("create", c.kind, c.namespace, <<>>, <<to_crd(c)>>)>>,
            err, IF err = "none" THEN "self" ELSE "none", NoStatus)

\* BaseChaos.delete(client)
BaseChaos_delete(c, replies) ==
  LET err == delete_chaos_resource(Reply(replies, 1).http)
  IN Result(<<Request("delete", c.kind, c.namespace, c.name, <<>>)>>,
            err, IF err = "none" THEN "None" ELSE "none", NoStatus)

\* BaseChaos.get_status(client)
BaseChaos_get_status(c, replies) ==
  LET r   == Reply(replies, 1)
      err == get_chaos_resource(r.http)
  IN Result(<<Request("get", c.kind, c.namespace, c.name, <<>>)>>,
            err, IF err = "none" THEN "status" ELSE "none",
            IF err = "none" THEN get_status(r) ELSE NoStatus)

\* The while loop of BaseChaos.wait_for_injection from its i-th iteration
\* on, elapsed seconds after start_time.
RECURSIVE BaseChaos_injection_loop(_, _, _, _, _)
BaseChaos_injection_loop(timeout, poll_interval, replies, i, elapsed) ==
  IF ~LoopCondition(elapsed, timeout)
    THEN [Result(<<>>, "ExperimentTimeoutError", "none", NoStatus)
            EXCEPT !.carries = {"name", "elapsed", "selector"}]
  ELSE LET r    == Reply(replies, i)
           err  == get_chaos_resource(r.http)
           next == InjectionPoll(err, get_status(r))
           rest == BaseChaos_injection_loop(timeout, poll_interval, replies,
                                            i + 1,
                                            elapsed + r.d + poll_interval)
       IN IF next = "return"
            THEN [Result(<<>>, "none", "True", NoStatus) EXCEPT !.polls = 1]
          ELSE IF next = "raise"
            THEN [Result(<<>>, err, "none", NoStatus) EXCEPT !.polls = 1]
          ELSE [rest EXCEPT !.polls = @ + 1, !.sleeps = @ + 1]

\* BaseChaos.wait_for_injection(client, timeout, poll_interval)
BaseChaos_wait_for_injection(c, timeout, poll_interval, replies) ==
  LET run_ == BaseChaos_injection_loop(
                OrDefault(timeout, config.wait_timeout),
                OrDefault(poll_interval, config.poll_interval), replies, 1, 0)
  IN [run_ EXCEPT !.requests =
        [k \in 1..run_.polls |->
           Request("get", c.kind, c.namespace, c.name, <<>>)]]

\* The while loop of BaseChaos.wait_for_deletion from its i-th iteration on.
RECURSIVE BaseChaos_deletion_loop(_, _, _, _, _)
BaseChaos_deletion_loop(timeout, poll_interval, replies, i, elapsed) ==
  IF ~LoopCondition(elapsed, timeout)
    THEN [Result(<<>>, "ExperimentTimeoutError", "none", NoStatus)
            EXCEPT !.carries = {"name", "timeout"}]
  ELSE LET r    == Reply(replies, i)
           err  == get_chaos_resource(r.http)
           next == DeletionPoll(err)
           rest == BaseChaos_deletion_loop(timeout, poll_interval, replies,
                                           i + 1,
                                           elapsed + r.d + poll_interval)
       IN IF next = "return"
            THEN [Result(<<>>, "none", "True", NoStatus) EXCEPT !.polls = 1]
          ELSE IF next = "raise"
            THEN [Result(<<>>, err, "none", NoStatus) EXCEPT !.polls = 1]
          ELSE [rest EXCEPT !.polls = @ + 1, !.sleeps = @ + 1]

\* BaseChaos.wait_for_deletion(client, timeout, poll_interval)
BaseChaos_wait_for_deletion(c, timeout, poll_interval, replies) ==
  LET run_ == BaseChaos_deletion_loop(timeout, poll_interval, replies, 1, 0)
  IN [run_ EXCEPT !.requests =
        [k \in 1..run_.polls |->
           Request("get", c.kind, c.namespace, c.name, <<>>)]]

\* ChaosManager.apply(experiment): it returns None.
ChaosManager_apply(experiment, replies) ==
  LET err == create_chaos_resource(Reply(replies, 1).http)
  IN Result(<<Request("create", experiment.kind, experiment.namespace, <<>>,
                      <<to_crd(experiment)>>)>>,
            err, IF err = "none" THEN "None" ELSE "none", NoStatus)

ChaosManager_delete_BugSwallows(experiment, replies) ==
  Result(<<Request("delete", experiment.kind, experiment.namespace,
                   experiment.name, <<>>)>>,
         "none", "None", NoStatus)

\* ChaosManager.delete(experiment)
ChaosManager_delete(experiment, replies) ==
  LET err == delete_chaos_resource(Reply(replies, 1).http)
  IN Result(<<Request("delete", experiment.kind, experiment.namespace,
                      experiment.name, <<>>)>>,
            err, IF err = "none" THEN "None" ELSE "none", NoStatus)

\* ChaosManager.get_status(experiment): resource.get("status", {})
ChaosManager_get_status(experiment, replies) ==
  LET r   == Reply(replies, 1)
      err == get_chaos_resource(r.http)
  IN Result(<<Request("get", experiment.kind, experiment.namespace,
                      experiment.name, <<>>)>>,
            err, IF err = "none" THEN "status" ELSE "none",
            IF err = "none" THEN r.status ELSE NoStatus)

\* The while loop of ChaosManager.wait_for_injection from its i-th iteration
\* on: the status request, the for loop over the conditions, the handler of
\* ChaosResourceNotFoundError, time.sleep; after the loop the
\* ExperimentTimeoutError, whose message states the name and the elapsed
\* time.
RECURSIVE ChaosManager_injection_loop(_, _, _, _, _)
ChaosManager_injection_loop(timeout, poll_interval, replies, i, elapsed) ==
  IF ~(elapsed < timeout)
    THEN [Result(<<>>, "ExperimentTimeoutError", "none", NoStatus)
            EXCEPT !.carries = {"name", "elapsed"}]
  ELSE LET r    == Reply(replies, i)
           err  == get_chaos_resource(r.http)
           cs   == IF r.status.hasStatus THEN r.status.conditions ELSE <<>>
           rest == ChaosManager_injection_loop(timeout, poll_interval,
                                               replies, i + 1,
                                               elapsed + r.d + poll_interval)
       IN IF /\ err = "none"
             /\ \E k \in DOMAIN cs :
                  cs[k].type = "AllInjected" /\ cs[k].status = "True"
            THEN [Result(<<>>, "none", "True", NoStatus) EXCEPT !.polls = 1]
          ELSE IF err \notin {"none", "ChaosResourceNotFoundError"}
            THEN [Result(<<>>, err, "none", NoStatus) EXCEPT !.polls = 1]
          ELSE [rest EXCEPT !.polls = @ + 1, !.sleeps = @ + 1]

\* ChaosManager.wait_for_injection(experiment, timeout, poll_interval):
\* "timeout or config.wait_timeout", "poll_interval or config.poll_interval"
ChaosManager_wait_for_injection(experiment, timeout, poll_interval, replies) ==
  LET t    == IF timeout = <<>> \/ timeout[1] = 0
                THEN config.wait_timeout ELSE timeout[1]
      p    == IF poll_interval = <<>> \/ poll_interval[1] = 0
                THEN config.poll_interval ELSE poll_interval[1]
      run_ == ChaosManager_injection_loop(t, p, replies, 1, 0)
  IN [run_ EXCEPT !.requests =
        [k \in 1..run_.polls |->
           Request("get", experiment.kind, experiment.namespace,
                   experiment.name, <<>>)]]

\* The while loop of ChaosManager.wait_for_deletion from its i-th iteration
\* on: the status request and time.sleep in the try block, the handler of
\* ChaosResourceNotFoundError that returns True.
RECURSIVE ChaosManager_deletion_loop(_, _, _, _, _)
ChaosManager_deletion_loop(timeout, poll_interval, replies, i, elapsed) ==
  IF ~(elapsed < timeout)
    THEN [Result(<<>>, "ExperimentTimeoutError", "none", NoStatus)
            EXCEPT !.carries = {"name", "timeout"}]
  ELSE LET r    == Reply(replies, i)
           err  == get_chaos_resource(r.http)
           rest == ChaosManager_deletion_loop(timeout, poll_interval, replies,
                                              i + 1,
                                              elapsed + r.d + poll_interval)
       IN IF err = "ChaosResourceNotFoundError"
            THEN [Result(<<>>, "none", "True", NoStatus) EXCEPT !.polls = 1]
          ELSE IF err # "none"
            THEN [Result(<<>>, err, "none", NoStatus) EXCEPT !.polls = 1]
          ELSE [rest EXCEPT !.polls = @ + 1, !.sleeps = @ + 1]

\* ChaosManager.wait_for_deletion(experiment, timeout, poll_interval)
ChaosManager_wait_for_deletion(experiment, timeout, poll_interval, replies) ==
  LET run_ == ChaosManager_deletion_loop(timeout, poll_interval, replies, 1, 0)
  IN [run_ EXCEPT !.requests =
        [k \in 1..run_.polls |->
           Request("get", experiment.kind, experiment.namespace,
                   experiment.name, <<>>)]]

\* The method of BaseChaos on experiment c.  The waits' arguments are <<>>
\* for None or <<v>>; wait_for_deletion's None is its default in the
\* signature.
BaseRun(method, c, timeout, poll_interval, replies) ==
  CASE method = "apply" -> BaseChaos_apply(c, replies)
    [] method = "delete" -> BaseChaos_delete(c, replies)
    [] method = "get_status" -> BaseChaos_get_status(c, replies)
    [] method = "wait_for_injection" ->
         BaseChaos_wait_for_injection(c, timeout, poll_interval, replies)
    [] method = "wait_for_deletion" ->
         BaseChaos_wait_for_deletion(
           c, IF timeout = <<>> THEN DeletionTimeout ELSE timeout[1],
           IF poll_interval = <<>> THEN DeletionPollInterval
                                   ELSE poll_interval[1], replies)

\* The method of ChaosManager on experiment c.
ManagerRun(method, c, timeout, poll_interval, replies) ==
  CASE method = "apply" -> ChaosManager_apply(c, replies)
    [] method = "delete" -> ChaosManager_delete(c, replies)
    [] method = "get_status" -> ChaosManager_get_status(c, replies)
    [] method = "wait_for_injection" ->
         ChaosManager_wait_for_injection(c, timeout, poll_interval, replies)
    [] method = "wait_for_deletion" ->
         ChaosManager_wait_for_deletion(
           c, IF timeout = <<>> THEN DeletionTimeout ELSE timeout[1],
           IF poll_interval = <<>> THEN DeletionPollInterval
                                   ELSE poll_interval[1], replies)

\* The verb of the requests of a method.
Verb(method) ==
  IF method = "apply" THEN "create"
  ELSE IF method = "delete" THEN "delete"
  ELSE "get"

\* No lifecycle method run yet.
NoRun ==
  [called |-> FALSE, method |-> "none", timeout |-> <<>>,
   poll_interval |-> <<>>,
   base |-> Result(<<>>, "none", "none", NoStatus),
   manager |-> Result(<<>>, "none", "none", NoStatus)]

\* One lifecycle method is run on the experiment constructed, as BaseChaos's
\* and as ChaosManager's, each against a client whose requests get the
\* answers of replies in order.  wait_for_deletion is not run with a poll
\* interval of 0.
RunLifecycle(method, timeout, poll_interval, replies) ==
  /\ chaos.built
  /\ ~run.called
  /\ method = "wait_for_deletion" => poll_interval \notin {<<0>>}
  /\ run' = [called |-> TRUE, method |-> method, timeout |-> timeout,
             poll_interval |-> poll_interval,
             base |-> BaseRun(method, chaos, timeout, poll_interval, replies),
             manager |-> ManagerRun(method, chaos, timeout, poll_interval,
                                    replies)]
  /\ UNCHANGED <<cluster, config, active_experiments, pc, op, w,
                 cleanup_errors, idx, exc_type, raised, observed, log, call,
                 chaos, parsed, client, ChaosConfig>>

\* ------------------------------------------------------------ specification

Init ==
  /\ cluster = [e \in Exps |-> Absent]
  /\ config = DefaultConfig
  /\ active_experiments = <<>>
  /\ pc = "body"
  /\ op = NoOp
  /\ w = NoWait
  /\ cleanup_errors = <<>>
  /\ idx = 1
  /\ exc_type = "none"
  /\ raised = "none"
  /\ observed = "pending"
  /\ log = NoLog
  /\ call = NoCall
  /\ chaos = NoChaos
  /\ parsed = NoParse
  /\ client = NoClient
  /\ run = NoRun
  /\ ChaosConfig = ImportedConfig

\* The wait loop in progress, whoever called it.
WaitLoop ==
  \/ WaitPoll
  \/ WaitSleep
  \/ WaitTimeout

\* The control plane acting on its own on the experiments of E, its
\* reconciler writing the statuses of S.
ControlPlane(E, S) ==
  \/ \E e \in E, st \in S : Reconcile(e, st)
  \/ \E e \in E : Finalize(e)
  \/ \E e \in E : ThirdPartyDelete(e)

\* A with ChaosController() block: its body calls inject, remove and
\* cleanup_all, then the scope exits.
Next ==
  \/ \E e \in Exps, wait \in BOOLEAN, t \in OptArgs : Inject(e, wait, t)
  \/ \E e \in Exps, wfd \in BOOLEAN : Remove(e, wfd)
  \/ WaitLoop
  \/ WaitReturn
  \/ RemoveAfterWait
  \/ ScopeEnd
  \/ ScopeRaise
  \/ CleanupAll
  \/ ExitDelete
  \/ ExitAfterWait
  \/ ExitFinish
  \/ ExitReturn
  \/ ControlPlane(Exps, ScopeStatuses)

Spec == Init /\ [][Next]_vars

\* A caller that drives one experiment by hand: apply, delete and the two
\* waits with arguments of its choice.
WaitNext ==
  \/ Apply("e1")
  \/ Delete("e1")
  \/ \E t \in OptArgs, p \in OptArgs : CallWaitForInjection("e1", t, p)
  \/ \E t \in 0..(MaxTimeout + 1), p \in 0..MaxTimeout :
       CallWaitForDeletion("e1", t, p)
  \/ WaitLoop
  \/ WaitReturn
  \/ ControlPlane({"e1"}, Statuses)

WaitSpec == Init /\ [][WaitNext]_vars

\* A caller that applies one experiment and waits on it, while another
\* thread updates the configuration.
ConfigNext ==
  \/ Apply("e1")
  \/ \E t \in OptArgs, p \in OptArgs : CallWaitForInjection("e1", t, p)
  \/ \E t \in 0..(MaxTimeout + 1), p \in 0..MaxTimeout :
       CallWaitForDeletion("e1", t, p)
  \/ WaitLoop
  \/ WaitReturn
  \/ \E u \in ApiUpdates \cup WaitUpdates : ConfigUpdate(u[1], u[2])

ConfigSpec == Init /\ [][ConfigNext]_vars

\* A caller of the client itself: it constructs clients and makes create,
\* delete, get and list requests on the experiments, the control plane
\* acting in between.
ClientNext ==
  \/ \E path \in KubeconfigPaths, incluster \in InclusterOutcomes,
        kubeconfig \in KubeconfigOutcomes :
       Connect(path, incluster, kubeconfig)
  \/ \E e \in Exps : CreateCall(e, NoBody)
  \/ \E e \in Exps : DeleteCall(e)
  \/ \E e \in Exps : GetCall(e)
  \/ ListCall
  \/ ClientAttempt
  \/ ControlPlane(Exps, ScopeStatuses)

ClientSpec == Init /\ [][ClientNext]_vars

\* A caller that constructs a selector, then an experiment with it, and
\* applies the experiment.
BuildNext ==
  \/ \E args \in CtorSelectors : NewSelector(args)
  \/ /\ ~chaos.called
     /\ \E mode \in ChaosMode, value \in Values, duration \in CtorDurations :
          NewChaos(<< <<"e1">> >>, Epoch * TicksPerSecond, mode, value,
                   duration)
  \/ ApplyChaos

BuildSpec == Init /\ [][BuildNext]_vars

\* A caller that constructs an experiment and builds its payload more than
\* once, while the configuration is updated.
CrdNext ==
  \/ \E args \in CtorSelectors : NewSelector(args)
  \/ /\ ~chaos.called
     /\ \E mode \in ChaosMode, value \in CtorValues, duration \in CtorDurations :
          NewChaos(<< <<"e1">> >>, Epoch * TicksPerSecond, mode, value,
                   duration)
  \/ ToCrd
  \/ \E u \in ApiUpdates : ConfigUpdate(u[1], u[2])

CrdSpec == Init /\ [][CrdNext]_vars

\* A caller that constructs one experiment, with or without a name, and
\* takes it through its lifecycle by hand.
NameNext ==
  \/ NewSelector(from_labels({<<"app", "web">>}, <<>>))
  \/ /\ ~chaos.called
     /\ \E name \in CtorNames, now \in Times, value \in CtorValues :
          NewChaos(name, now, "fixed", value, <<>>)
  \/ ToCrd
  \/ ApplyChaos
  \/ DeleteChaos
  \/ GetStatusChaos
  \/ ClientAttempt
  \/ ControlPlane({"e1"}, ScopeStatuses)

NameSpec == Init /\ [][NameNext]_vars

\* A caller that constructs an experiment and runs the lifecycle methods of
\* both implementations on it, under every behaviour of the control plane.
LifecycleNext ==
  \/ NewSelector(from_labels({<<"app", "web">>}, <<>>))
  \/ /\ ~chaos.called
     /\ \E name \in CtorNames :
          NewChaos(name, Epoch * TicksPerSecond, "one", <<>>, <<>>)
  \/ \E method \in Methods \ Waits :
       \E replies \in [1..1 -> Replies(Verb(method))] :
         RunLifecycle(method, <<>>, <<>>, replies)
  \/ \E method \in Waits, timeout \in OptArgs, poll_interval \in OptArgs :
       \E replies \in [1..MaxReplies -> Replies(Verb(method))] :
         RunLifecycle(method, timeout, poll_interval, replies)

LifecycleSpec == Init /\ [][LifecycleNext]_vars

\* Callers that construct, fetch, reset and update the configuration.
SingletonNext ==
  \/ \E kwargs \in CtorConfigs : NewConfig(kwargs)
  \/ GetInstance
  \/ Reset
  \/ \E u \in ApiUpdates \cup WaitUpdates \cup NonFieldUpdates :
       ConfigUpdate(u[1], u[2])
  \/ \E u \in ApiUpdates \cup NonFieldUpdates : InstanceUpdate(u[1], u[2])

SingletonSpec == Init /\ [][SingletonNext]_vars

\* A caller that constructs selectors and converts them.
SelectorNext ==
  \/ \E args \in SelectorArgs : NewSelector(args)
  \/ SelectorToCrdDict

SelectorSpec == Init /\ [][SelectorNext]_vars

\* A caller of parse_duration.
ParseNext == \E duration \in DurationStrings : ParseDuration(duration)

ParseSpec == Init /\ [][ParseNext]_vars

\* ---------------------------------------------------------------- properties

\* This step is a status request of the wait loop in progress.
Polled ==
  /\ pc = "wait"
  /\ w.at = "loop"
  /\ w'.at # "loop"
  /\ w'.result # "ExperimentTimeoutError"

\* The cleanup pass is over: __exit__ is about to return, or has returned to
\* the caller of the with statement.
PassOver == pc \in {"exit_return", "done"}

\* The experiments of the pass's delete requests that failed, in order.
RECURSIVE FailedExps(_)
FailedExps(steps) ==
  IF steps = <<>> THEN <<>>
  ELSE (IF Head(steps).failed THEN <<Head(steps).exp>> ELSE <<>>)
         \o FailedExps(Tail(steps))

\* C1: a cleanup pass issues exactly one delete request per entry of the
\* tracked list it started from, in the list's order, whichever of the
\* requests fail: never more requests than entries, and at the end of the
\* pass one for each.
C1_ExitDeletesEveryTracked ==
  /\ Len(log.steps) <= Len(log.tracked)
  /\ \A i \in 1..Len(log.steps) : log.steps[i].exp = log.tracked[i]
  /\ PassOver => Len(log.steps) = Len(log.tracked)

\* C1 witness: a pass over two entries whose first delete failed and whose
\* second delete was issued and succeeded.
C1_Witness ==
  /\ PassOver
  /\ Len(log.tracked) = 2
  /\ Len(log.steps) = 2
  /\ log.steps[1].failed
  /\ ~log.steps[2].failed

\* C2: once the cleanup pass is over, and after the scope has exited, the
\* tracked list is empty.
C2_TrackedEmptyAfterExit ==
  PassOver => active_experiments = <<>>

\* C2 witness: the scope has exited with a failure propagating from its
\* body, after a pass in which a delete failed and a wait_for_deletion
\* failed.
C2_Witness ==
  /\ pc = "done"
  /\ exc_type # "none"
  /\ \E i \in 1..Len(log.steps) : log.steps[i].failed
  /\ log.warnings > 0
  /\ active_experiments = <<>>

\* C3: no error leaves __exit__, and the caller of the with statement
\* observes exactly the failure that left the body: none when the body
\* ended normally, whatever the deletes did.
C3_ExitNeverRaisesNorSuppresses ==
  /\ log.escaped = "none"
  /\ pc = "done" => observed = exc_type

\* C3 witness: the body raised, both deletes of the pass failed, and the
\* caller observes the body's failure.
C3_Witness ==
  /\ pc = "done"
  /\ exc_type = "AssertionError"
  /\ observed = "AssertionError"
  /\ Len(log.steps) = 2
  /\ \A i \in 1..2 : log.steps[i].failed

\* C4 (as claimed): once the cleanup pass is over, every experiment the
\* pass started from is absent from the control plane or under deletion.
C4_Claim_RemovalGuaranteed ==
  PassOver =>
    \A i \in 1..Len(log.tracked) :
      \/ ~cluster[log.tracked[i]].exists
      \/ cluster[log.tracked[i]].deleting

\* C5: throughout a cleanup pass the aggregate holds exactly the experiments
\* whose delete request failed, in order (so a failed wait adds none);
\* wait_for_deletion was called for an entry exactly when its delete
\* succeeded; and at the end of the pass the summary warning was logged
\* once if some delete failed and not at all otherwise.
C5_AggregateIsDeleteFailures ==
  /\ cleanup_errors = FailedExps(log.steps)
  /\ \A i \in 1..Len(log.steps) : log.steps[i].waited <=> ~log.steps[i].failed
  /\ log.summaries = IF PassOver /\ \E i \in 1..Len(log.steps) : log.steps[i].failed
                       THEN 1 ELSE 0

\* C5 witness: the end of a pass over two entries: the first delete failed,
\* the second succeeded and its wait_for_deletion failed; one aggregate
\* entry, one summary.
C5_Witness ==
  /\ PassOver
  /\ Len(log.steps) = 2
  /\ log.steps[1].failed
  /\ log.steps[2].waited
  /\ log.warnings = 1
  /\ Len(cleanup_errors) = 1
  /\ log.summaries = 1

\* C6: a status request of wait_for_injection answered with a status that
\* lists AllInjected/True, at any position and among any other conditions,
\* ends the wait with True in that very step; the finished wait neither
\* sleeps nor polls again.
C6_ReturnsOnFirstInjectedPoll ==
  [][ /\ (Polled /\ w.kind = "injection" /\ w'.lastHttp = 200
            /\ ReportsAllInjected(cluster[w.exp].status))
         => (w'.at = "done" /\ w'.result = "True")
      /\ (w.at = "done" /\ w.result = "True") => (w' = w \/ w'.at = "idle")
    ]_vars

\* C6 witness: wait_for_injection has returned True on a status whose
\* AllInjected/True condition comes after a condition with status False.
C6_Witness ==
  /\ w.kind = "injection"
  /\ w.at = "done"
  /\ w.result = "True"
  /\ cluster[w.exp].status =
       StatusOf(<<Cond("Selected", "False"), Cond("AllInjected", "True")>>)

C8_ReturnOnlyOnAllInjected ==
  [][ (w'.kind = "injection" /\ w'.result = "True" /\ w.result # "True")
      => /\ Polled
         /\ w'.lastHttp = 200
         /\ cluster[w.exp].exists
         /\ ReportsAllInjected(cluster[w.exp].status)
    ]_vars

\* C8 witness: wait_for_injection has returned True after at least one
\* unsuccessful iteration.
C8_Witness ==
  /\ w.kind = "injection"
  /\ w.at = "done"
  /\ w.result = "True"
  /\ w.poll_interval > MaxLatency
  /\ w.elapsed >= w.poll_interval
  /\ w.lastHttp = 200

\* C9: a status request of wait_for_deletion answered not-found ends the
\* wait with True in that very step, and nothing else makes it return True;
\* a request answered with the resource leads to the sleep; the wait ends
\* with ExperimentTimeoutError only once the timeout has elapsed, and that
\* is how it ends when its last status request (if any) found the resource.
C9_DeletionConfirmedByNotFound ==
  [][ /\ (Polled /\ w.kind = "deletion" /\ w'.lastHttp = 404)
         => (w'.at = "done" /\ w'.result = "True")
      /\ (Polled /\ w.kind = "deletion" /\ w'.lastHttp = 200)
         => (w'.at = "sleep" /\ w'.result = "none")
      /\ (w'.kind = "deletion" /\ w'.result = "True" /\ w.result # "True")
         => (Polled /\ w'.lastHttp = 404 /\ ~cluster[w.exp].exists)
      /\ (w'.kind = "deletion" /\ w'.at = "done")
         => /\ w'.result = "ExperimentTimeoutError" => w'.elapsed >= w'.timeout
            /\ w'.lastHttp \in {0, 200} => w'.result = "ExperimentTimeoutError"
    ]_vars

\* C9 witness: wait_for_deletion has returned True on a not-found answer
\* after at least one iteration that found the resource.
C9_Witness ==
  /\ w.kind = "deletion"
  /\ w.at = "done"
  /\ w.result = "True"
  /\ w.lastHttp = 404
  /\ w.poll_interval > MaxLatency
  /\ w.elapsed >= w.poll_interval

\* C10 (as claimed): when a wait returns or raises, the time elapsed on the
\* clock its loop reads does not exceed its timeout.
C10_Claim_ElapsedWithinTimeout ==
  w.at = "done" => w.elapsed <= w.timeout

C12_CreateErrors ==
  [][ \A e \in Exps :
        CreateCall(e, NoBody) =>
          /\ call'.lastHttp = 409
               => /\ call'.result = "ExperimentAlreadyExistsError"
                  /\ cluster[e].exists
                  /\ cluster' = cluster
          /\ call'.lastHttp \notin {201, 409}
               => /\ call'.result = "ChaosMeshConnectionError"
                  /\ cluster' = cluster
          /\ call'.result = "none" <=> call'.lastHttp = 201
          /\ call'.result = "none" => cluster'[e] = Present(NoStatus)
    ]_vars

\* C12 witness: a create of an experiment that exists was answered with
\* conflict and raised ExperimentAlreadyExistsError.
C12_Witness ==
  /\ call.fn = "create"
  /\ call.lastHttp = 409
  /\ call.result = "ExperimentAlreadyExistsError"
  /\ cluster[call.exp].exists

\* C13: a get whose request is answered not-found ends there, raising
\* ChaosResourceNotFoundError after that one request; no call that raises a
\* translated domain error (not-found, conflict) has issued a second
\* request.
C13_NotFoundNotRetried ==
  /\ (call.fn = "get" /\ call.lastHttp = 404)
       => /\ call.at = "done"
          /\ call.result = "ChaosResourceNotFoundError"
          /\ call.requests = 1
  /\ call.result \in {"ChaosResourceNotFoundError",
                      "ExperimentAlreadyExistsError"}
       => call.requests = 1

\* C13 witness: a get of an absent experiment has raised
\* ChaosResourceNotFoundError after one request.
C13_Witness ==
  /\ call.fn = "get"
  /\ call.at = "done"
  /\ call.lastHttp = 404
  /\ call.result = "ChaosResourceNotFoundError"
  /\ call.requests = 1
  /\ ~cluster[call.exp].exists

\* C14 (as claimed): a get or list raises ChaosMeshConnectionError only
\* once retry_max_attempts requests have been issued and have failed.
C14_Claim_TransientRetried ==
  (call.fn \in {"get", "list"} /\ call.at = "done"
     /\ call.result = "ChaosMeshConnectionError")
    => call.requests = RetryMaxAttempts

\* C15: inject comes to wait_for_injection only in the step whose create
\* request succeeded, with the experiment appended to the tracked list and
\* no status request issued yet; every status request of inject's wait is
\* for a tracked experiment; and inject with wait=False ends in its own
\* step, without a wait, the experiment appended if the create succeeded.
C15_InjectOrder ==
  [][ /\ (w'.caller = "inject" /\ w.caller # "inject")
           => /\ ~cluster[w'.exp].exists
              /\ cluster'[w'.exp] = Present(NoStatus)
              /\ active_experiments' = Append(active_experiments, w'.exp)
              /\ w'.lastHttp = 0
      /\ (Polled /\ w.caller = "inject") => InSeq(active_experiments, w.exp)
      /\ \A e \in Exps, t \in OptArgs :
           Inject(e, FALSE, t)
             => /\ pc' = "body"
                /\ w' = NoWait
                /\ raised' = "none"
                     => active_experiments' = Append(active_experiments, e)
    ]_vars

\* C15 witness: inject's wait_for_injection has issued a status request for
\* the experiment, which is tracked.
C15_Witness ==
  /\ pc = "wait"
  /\ w.caller = "inject"
  /\ w.lastHttp # 0
  /\ InSeq(active_experiments, w.exp)

\* C16 (as claimed): a failure of remove's delete or of its wait is raised
\* to the caller, the tracked list as it was; and when remove returns
\* normally the experiment is no longer in the tracked list.
C16_Claim_RemoveUntracks ==
  [][ /\ \A e \in Exps, wfd \in BOOLEAN :
           (Remove(e, wfd) /\ pc' = "body")
             => IF raised' = "none"
                  THEN ~InSeq(active_experiments', e)
                  ELSE active_experiments' = active_experiments
      /\ RemoveAfterWait
           => /\ w.result # "True" => raised' = w.result
              /\ IF raised' = "none"
                   THEN ~InSeq(active_experiments', op.exp)
                   ELSE active_experiments' = active_experiments
    ]_vars

\* <n><unit>: one or more decimal digits, then s, m or h, and nothing else.
IsDurationForm(s) ==
  /\ Len(s) >= 2
  /\ \A i \in 1..(Len(s) - 1) : s[i] \in Digits
  /\ s[Len(s)] \in {"s", "m", "h"}

\* d.get(k, {}) of a selector dictionary
DictGet(d, k) == IF k \in DOMAIN d THEN d[k] ELSE {}

\* The selector invariants: labelSelectors and pods not both non-empty, and
\* one of the four matchers non-empty.
SelectorRule(s) ==
  /\ ~(DictGet(s, "labelSelectors") # {} /\ DictGet(s, "pods") # {})
  /\ \/ DictGet(s, "labelSelectors") # {}
     \/ DictGet(s, "pods") # {}
     \/ DictGet(s, "fieldSelectors") # {}
     \/ DictGet(s, "annotationSelectors") # {}

\* The mode/value rule: fixed, fixed-percent and random-max-percent need a
\* non-empty value; fixed a positive integer; the percent modes a number in
\* [0, 100].
ModeValueRule(mode, value) ==
  /\ mode \in {"fixed", "fixed-percent", "random-max-percent"}
       => ~Falsy(value)
  /\ mode = "fixed"
       => (IntParse(value[1]).ok /\ IntParse(value[1]).value >= 1)
  /\ mode \in {"fixed-percent", "random-max-percent"}
       => LET f == FloatParse(value[1])
          IN f.ok /\ (f.neg => (f.int = 0 /\ ~f.frac))
                  /\ (f.int <= 99 \/ (f.int = 100 /\ ~f.frac))

\* C17 (as claimed): the body of every create request of apply satisfies
\* the selector invariants, the mode/value rule and the duration format.
C17_Claim_OnlyWellFormedCreated ==
  call.fn = "create"
    => /\ SelectorRule(call.body.spec.selector)
       /\ ModeValueRule(call.body.spec.mode, call.body.spec.value)
       /\ \/ call.body.spec.duration = <<>>
          \/ IsDurationForm(call.body.spec.duration[1])

\* The matcher fields of a selector's arguments that are non-empty.
Populated(a) ==
  {f \in {"label_selectors", "pods", "field_selectors", "annotation_selectors"} :
     a[f] # {}}

\* C18: the ChaosSelector constructor, whatever namespaces is, raises
\* AmbiguousSelectorError when label_selectors and pods are both non-empty,
\* raises when the four matcher fields are all empty, and returns a selector
\* when exactly one matcher field is non-empty; it returns one only when it
\* raises nothing.
C18_SelectorConstruction ==
  LET s == chaos.selector
      a == s.args
  IN s.called =>
       /\ s.built <=> s.error = "none"
       /\ (a.label_selectors # {} /\ a.pods # {})
            => s.error = "AmbiguousSelectorError"
       /\ Populated(a) = {} => s.error # "none"
       /\ Cardinality(Populated(a)) = 1 => s.built

\* C18 witness: a selector built from pods alone, in a namespace.
C18_Witness ==
  /\ chaos.selector.built
  /\ Populated(chaos.selector.args) = {"pods"}
  /\ chaos.selector.args.namespaces # <<>>

\* C19: an experiment is constructed only with a mode and value that
\* satisfy the mode/value rule; the constructor raises when they do not; and
\* it returns the experiment when they do and the duration is well-formed
\* (so modes one and all do with no value).
C19_ModeValueEnforced ==
  chaos.called =>
    /\ chaos.built => ModeValueRule(chaos.mode, chaos.value)
    /\ ~ModeValueRule(chaos.mode, chaos.value)
         => (~chaos.built /\ chaos.error = "ValueError")
    /\ (ModeValueRule(chaos.mode, chaos.value)
          /\ (chaos.duration = <<>> \/ IsDurationForm(chaos.duration[1])))
         => chaos.built

\* C19 witness: an experiment built with mode fixed and value "3".
C19_Witness ==
  /\ chaos.built
  /\ chaos.mode = "fixed"
  /\ chaos.value = << <<"3">> >>

\* C20 (as claimed): parse_duration returns n, 60 n or 3600 n for a string
\* <n>s, <n>m or <n>h and raises ValueError for every other string; and it
\* accepts a string exactly when the experiment constructor accepts it as a
\* duration.
C20_Claim_ParseDuration ==
  parsed.called =>
    LET s == parsed.input
    IN /\ IsDurationForm(s)
            => /\ parsed.error = "none"
               /\ parsed.seconds =
                    DecimalValue(SubSeq(s, 1, Len(s) - 1))
                      * (CASE s[Len(s)] = "s" -> 1
                           [] s[Len(s)] = "m" -> 60
                           [] s[Len(s)] = "h" -> 3600)
       /\ ~IsDurationForm(s) => parsed.error = "ValueError"
       /\ parsed.error = "none" <=> validate_duration_format(<<s>>) = "none"

\* C25: the delete requests of a cleanup pass are issued one at a time in
\* tracked-list order: the request for position i is issued by the pass
\* itself with no wait in progress, when exactly the positions before i have
\* had their request, and when the request before it succeeded only after
\* the wait_for_deletion that followed it is over; while that wait is in
\* progress the pass stands at the position it waits for.
C25_ExitSequential ==
  [][ /\ Len(log'.steps) > Len(log.steps) =>
           /\ pc = "exit"
           /\ w = NoWait
           /\ idx = Len(log.steps) + 1
           /\ log'.steps = Append(log.steps, log'.steps[idx])
           /\ log'.steps[idx].exp = active_experiments[idx]
           /\ idx > 1 => log.steps[idx - 1].waited = ~log.steps[idx - 1].failed
      /\ (pc' = "wait" /\ w'.caller = "exit") =>
           /\ idx' = Len(log'.steps)
           /\ w'.exp = log'.steps[idx'].exp
           /\ log'.steps[idx'].waited
    ]_vars

\* C25 witness: the second delete request of a pass has been issued after
\* the first one succeeded and its wait_for_deletion failed.
C25_Witness ==
  /\ pc \in {"exit", "wait"}
  /\ Len(log.steps) = 2
  /\ log.steps[1].waited
  /\ log.warnings = 1

\* C28: an operation of the scope body that ends in ExperimentAlreadyExistsError
\* or ChaosMeshConnectionError without having started a wait (inject failing
\* in its create step among them; the step is the one that sets the error,
\* the control plane's own steps set none) leaves the tracked list as it
\* was, and a conflict leaves the control plane as it was; the tracked list
\* grows only
\* by the experiment of a create request that succeeded in that step; and a
\* cleanup pass sends its delete requests only to experiments tracked when it
\* started, hence never to a resource whose name collided in a failed inject
\* unless it was tracked already.
C28_FailedCreateNotTracked ==
  [][ /\ ( /\ pc = "body"
           /\ pc' = "body"
           /\ raised' # raised
           /\ raised' \in {"ExperimentAlreadyExistsError",
                           "ChaosMeshConnectionError"} ) =>
           /\ active_experiments' = active_experiments
           /\ raised' = "ExperimentAlreadyExistsError" => cluster' = cluster
      /\ Len(active_experiments') > Len(active_experiments) =>
           \E e \in Exps :
             /\ active_experiments' = Append(active_experiments, e)
             /\ ~cluster[e].exists
             /\ cluster'[e] = Present(NoStatus)
      /\ Len(log'.steps) > Len(log.steps) =>
           InSeq(log.tracked, log'.steps[Len(log'.steps)].exp)
    ]_vars

\* C28 witness: the scope was left by the ExperimentAlreadyExistsError of an
\* inject, and the resource whose name collided, which the pass did not
\* start from, is still on the control plane and not under deletion.
C28_Witness ==
  /\ pc = "done"
  /\ exc_type = "ExperimentAlreadyExistsError"
  /\ \E e \in Exps :
       /\ cluster[e].exists
       /\ ~cluster[e].deleting
       /\ ~InSeq(log.tracked, e)

\* C29: while inject waits after its successful create, and when that wait
\* raises (ExperimentTimeoutError or an error of a status request), the
\* experiment is in the tracked list and the list is as inject left it; an
\* entry leaves the tracked list only in a remove that returns normally or at
\* the end of a cleanup pass (cleanup_all, scope exit); and a cleanup pass
\* starts from the tracked list as it is then.
C29_TrackedUntilRemoved ==
  [][ /\ (pc = "wait" /\ w.caller = "inject") =>
           /\ InSeq(active_experiments, w.exp)
           /\ active_experiments' = active_experiments
      /\ Len(active_experiments') < Len(active_experiments) =>
           \/ /\ pc = "exit"
              /\ pc' = "exit_return"
              /\ Len(log.steps) = Len(log.tracked)
           \/ /\ pc \in {"body", "wait"}
              /\ pc' = "body"
              /\ raised' = "none"
              /\ \E e \in Exps :
                   active_experiments' = RemoveFirst(active_experiments, e)
      /\ (pc = "body" /\ pc' = "exit") => log'.tracked = active_experiments
    ]_vars

\* C29 witness: the scope was left by the ExperimentTimeoutError of an
\* inject whose create succeeded, and the pass that followed issued its
\* delete request for that experiment.
C29_Witness ==
  /\ pc = "done"
  /\ exc_type = "ExperimentTimeoutError"
  /\ Len(log.steps) = 1
  /\ log.steps[1].exp = log.tracked[1]
  /\ ~log.steps[1].failed

\* C30: a remove that raises, in its delete step or out of its
\* wait_for_deletion (a deletion timeout after an accepted delete request
\* included), leaves the tracked list as it was, so that the experiment, if
\* tracked, still is; while remove waits the list is untouched; and a remove
\* of an experiment that is not tracked leaves the list as it was and has
\* its delete request accepted when the resource exists and the request does
\* not fail.
C30_FailedRemoveKeepsTracked ==
  [][ /\ (pc = "wait" /\ w.caller = "remove") =>
           /\ op.exp = w.exp
           /\ IF pc' = "body" /\ raised' = "none"
                THEN active_experiments' = RemoveFirst(active_experiments, w.exp)
                ELSE active_experiments' = active_experiments
           /\ pc' = "body" =>
                raised' = (IF w.result = "True" THEN "none" ELSE w.result)
      /\ (pc = "body" /\ pc' = "body" /\ raised' # raised /\ raised' # "none") =>
           active_experiments' = active_experiments
      /\ \A e \in Exps :
           ( /\ ~InSeq(active_experiments, e)
             /\ \E wfd \in BOOLEAN : Remove(e, wfd) ) =>
             /\ active_experiments' = active_experiments
             /\ (cluster[e].exists /\ raised' = "none") => cluster'[e].deleting
    ]_vars

\* C30 witness: the wait_for_deletion of a remove has timed out after the
\* delete request was accepted, with the experiment still tracked.
C30_Witness ==
  /\ pc = "wait"
  /\ w.caller = "remove"
  /\ w.result = "ExperimentTimeoutError"
  /\ cluster[w.exp].deleting
  /\ InSeq(active_experiments, w.exp)

\* ceil(a / b) for a >= 0, b > 0
Ceil(a, b) == (a + b - 1) \div b

\* C26: a wait with timeout T and poll_interval > 0 starts a status request
\* only while the elapsed time is below T, makes at most ceil(T /
\* poll_interval) status requests, lets at least poll_interval elapse across
\* each unsuccessful iteration, can do nothing but raise
\* ExperimentTimeoutError once the elapsed time is at or beyond T at the loop
\* head, and ends with True, with ExperimentTimeoutError or with the error
\* of a status request.
C26_WaitsTerminate ==
  [][ /\ Polled => w.elapsed < w.timeout
      /\ ( /\ w'.poll_interval > 0
           /\ Ceil(w'.timeout, w'.poll_interval) < MaxPolls ) =>
           w'.polls <= Ceil(w'.timeout, w'.poll_interval)
      /\ (pc = "wait" /\ w.at = "sleep" /\ w' # w) =>
           /\ w'.at = "loop"
           /\ w'.polls = w.polls
           /\ w'.elapsed >= w.elapsed + w.poll_interval
      /\ (pc = "wait" /\ w.at = "loop" /\ w.elapsed >= w.timeout /\ w' # w) =>
           /\ w'.at = "done"
           /\ w'.result = "ExperimentTimeoutError"
           /\ w'.polls = w.polls
      /\ w'.at = "done" =>
           w'.result \in {"True", "ExperimentTimeoutError",
                          "ChaosMeshConnectionError"}
    ]_vars

\* C26 witness: a wait has raised ExperimentTimeoutError after exactly
\* ceil(T / poll_interval) status requests, more than one.
C26_Witness ==
  /\ w.at = "done"
  /\ w.result = "ExperimentTimeoutError"
  /\ w.poll_interval > 0
  /\ w.polls > 1
  /\ w.polls = Ceil(w.timeout, w.poll_interval)

\* C27: a status request of wait_for_injection that the API server answers
\* while the resource's status reports AllInjected/True is an observation of
\* it and makes the wait return True in that step; the wait raises
\* ExperimentTimeoutError only when none of its status requests observed
\* AllInjected/True, and an observation is never followed by another
\* iteration.
C27_InjectedObservedReturnsTrue ==
  [][ /\ ( /\ Polled
           /\ w.kind = "injection"
           /\ w'.lastHttp = 200
           /\ ReportsAllInjected(cluster[w.exp].status) ) =>
           /\ w'.saw
           /\ w'.result = "True"
      /\ w'.result = "ExperimentTimeoutError" => ~w'.saw
      /\ w'.saw => (w'.at = "done" /\ w'.result = "True")
    ]_vars

\* C27 witness: wait_for_injection has returned True on its second or later
\* status request, the first one to observe AllInjected/True.
C27_Witness ==
  /\ w.kind = "injection"
  /\ w.saw
  /\ w.result = "True"
  /\ w.polls >= 2

\* The keys of the four matchers.
MatcherKeys == SelectorKeys \ {"namespaces"}

\* C22: the dictionary to_crd_dict returns for a constructed selector holds
\* at least one of the keys labelSelectors, pods, fieldSelectors and
\* annotationSelectors, never both labelSelectors and pods, and holds a key
\* only with the value of its field, which is then non-empty.
C22_SelectorDictWellFormed ==
  chaos.selector.crd # <<>> =>
    LET d == chaos.selector.crd[1]
        a == chaos.selector.args
    IN /\ chaos.selector.built
       /\ DOMAIN d \subseteq SelectorKeys
       /\ DOMAIN d \cap MatcherKeys # {}
       /\ ~({"labelSelectors", "pods"} \subseteq DOMAIN d)
       /\ \A k \in DOMAIN d :
            /\ d[k] = SelectorField(a, k)
            /\ IF k = "namespaces" THEN d[k] # <<>> ELSE d[k] # {}

\* C22 witness: the dictionary of a selector built from pods, field
\* selectors and a namespace, without label or annotation selectors.
C22_Witness ==
  /\ chaos.selector.crd # <<>>
  /\ DOMAIN chaos.selector.crd[1] = {"namespaces", "pods", "fieldSelectors"}

\* C21 (as claimed): any two calls of to_crd on a constructed experiment
\* with an explicit name, whose fields nothing modifies, return equal
\* payloads.
C21_Claim_BuildDeterministic ==
  \A i, j \in 1..Len(chaos.payloads) : chaos.payloads[i] = chaos.payloads[j]

\* C24 (as claimed): a wait in progress keeps the timeout and the
\* poll_interval it started with, sleeps for that poll_interval, and sends
\* every one of its status requests to the api_group and api_version that
\* were configured when it started, whatever config.update does meanwhile.
C24_Claim_ConfigFixedAtWaitStart ==
  [][ /\ (pc = "wait" /\ pc' = "wait") =>
           /\ w'.timeout = w.timeout
           /\ w'.poll_interval = w.poll_interval
           /\ w'.startApi = w.startApi
      /\ (pc = "wait" /\ w.at = "sleep" /\ w' # w) =>
           w'.elapsed = w.elapsed + w.poll_interval
      /\ Polled => w'.api = w.startApi
    ]_vars

\* C23: constructing a client loads the in-cluster configuration first; when
\* that succeeds the kubeconfig is never loaded and the client is
\* constructed; when it fails the kubeconfig is loaded next, and the client
\* is constructed if that succeeds; when both fail the constructor raises
\* ChaosMeshConnectionError whose cause is the kubeconfig failure, and no
\* client is constructed.
C23_ConnectOrder ==
  client.called =>
    /\ client.loads # <<>>
    /\ client.loads[1] = "incluster"
    /\ client.constructed <=> client.error = "none"
    /\ client.incluster = "ok" =>
         (client.loads = <<"incluster">> /\ client.constructed)
    /\ client.incluster # "ok" =>
         client.loads = <<"incluster", "kubeconfig">>
    /\ (client.incluster # "ok" /\ client.kubeconfig = "ok") =>
         client.constructed
    /\ (client.incluster # "ok" /\ client.kubeconfig # "ok") =>
         /\ ~client.constructed
         /\ client.error = "ChaosMeshConnectionError"
         /\ client.cause = client.kubeconfig

\* C23 witness: a construction in which both loaders failed, the kubeconfig
\* one on a missing file at the path given.
C23_Witness ==
  /\ client.called
  /\ client.incluster = "ConfigException"
  /\ client.kubeconfig = "FileNotFoundError"
  /\ client.kube_path = <<"~/.kube/alt">>
  /\ client.error = "ChaosMeshConnectionError"

\* A step of a running wait: its status request, its sleep or its raise of
\* ExperimentTimeoutError.
WaitStep ==
  /\ pc = "wait"
  /\ w.at \in {"loop", "sleep"}
  /\ w' # w

\* C31: no step of wait_for_injection or wait_for_deletion (a status
\* request, whatever it returns or raises, a sleep, or the raise of
\* ExperimentTimeoutError) changes the experiment, the controller's tracked
\* list or the control-plane resources; a status request is a read.
C31_WaitsOnlyRead ==
  [][ WaitStep
      => /\ chaos' = chaos
         /\ active_experiments' = active_experiments
         /\ cluster' = cluster
         /\ w'.exp = w.exp
    ]_vars

\* C31 witness: a wait on a tracked experiment whose resource exists has
\* raised ExperimentTimeoutError after a status request.
C31_Witness ==
  /\ pc = "wait"
  /\ w.at = "done"
  /\ w.result = "ExperimentTimeoutError"
  /\ w.polls >= 1
  /\ InSeq(active_experiments, w.exp)
  /\ cluster[w.exp].exists

\* C32: a status request of either wait that fails with an error other than
\* not-found ends the wait in that very step with that error
\* (ChaosMeshConnectionError), neither sleeping nor turning it into
\* ExperimentTimeoutError; a wait that ended with it makes no further step;
\* and a status request leads to the sleep only when it was answered with
\* the resource or, in wait_for_injection, with not-found.
C32_PollErrorAborts ==
  [][ /\ (Polled /\ w'.lastHttp \notin {200, 404})
         => /\ w'.at = "done"
            /\ w'.result = "ChaosMeshConnectionError"
            /\ w'.elapsed <= w.elapsed + MaxLatency
      /\ (Polled /\ w'.at = "sleep")
         => \/ w'.lastHttp = 200
            \/ (w.kind = "injection" /\ w'.lastHttp = 404)
      /\ (w.at = "done" /\ w.result = "ChaosMeshConnectionError")
         => (w' = w \/ w'.at = "idle")
    ]_vars

\* C32 witness: wait_for_deletion has ended with ChaosMeshConnectionError on
\* a status request that followed a sleep, before its timeout.
C32_Witness ==
  /\ w.kind = "deletion"
  /\ w.at = "done"
  /\ w.result = "ChaosMeshConnectionError"
  /\ w.polls >= 2
  /\ w.elapsed < w.timeout

\* C33 (as claimed): whatever inject, remove, cleanup_all and scope-exit
\* operations have run, no experiment occurs more than once in the
\* controller's tracked list.
C33_Claim_TrackedAtMostOnce ==
  \A i, j \in DOMAIN active_experiments :
    active_experiments[i] = active_experiments[j] => i = j

\* C34: the pass of cleanup_all is __exit__ entered without an exception:
\* it starts from the tracked list, and when it returns to the scope body
\* every experiment of that list has had its delete request, the tracked
\* list is empty and no error is raised; every pass, a later scope exit
\* included, starts from the tracked list of its moment and issues its
\* delete requests to the experiments of that list only, so that an
\* experiment processed by cleanup_all gets another delete request only if
\* it was injected again.
C34_CleanupAllThenUsable ==
  [][ /\ (op'.name = "cleanup_all" /\ pc' # "body")
         => exc_type' = "none"
      /\ (pc = "body" /\ pc' = "exit")
         => (log'.tracked = active_experiments /\ log'.steps = <<>>)
      /\ (pc = "exit_return" /\ op.name = "cleanup_all" /\ pc' # pc)
         => /\ pc' = "body"
            /\ raised' = "none"
            /\ active_experiments' = <<>>
            /\ Len(log.steps) = Len(log.tracked)
            /\ log' = NoLog
      /\ (pc' = "done" /\ pc # "done")
         => /\ active_experiments' = <<>>
            /\ Len(log.steps) = Len(log.tracked)
      /\ \A i \in DOMAIN log'.steps : log'.steps[i].exp = log'.tracked[i]
    ]_vars

\* C34 witness: the scope has exited with a pass that deleted an experiment
\* and issued no request for another one, whose resource is still there and
\* not under deletion: the latter was untracked by an earlier cleanup_all
\* whose delete request for it failed, the former was injected after it.
C34_Witness ==
  /\ pc = "done"
  /\ Len(log.steps) >= 1
  /\ ~log.steps[1].failed
  /\ \E e \in Exps :
       /\ cluster[e].exists
       /\ ~cluster[e].deleting
       /\ ~InSeq(log.tracked, e)

\* C36 (as claimed): a call of wait_for_injection bounds its loop by the
\* configured wait_timeout exactly when its timeout argument is None and by
\* the argument's value otherwise, 0 included; likewise its sleeps last the
\* configured poll_interval exactly when that argument is None.
C36_Claim_ExplicitArgumentsBound ==
  [][ \A t \in OptArgs, p \in OptArgs :
        CallWaitForInjection("e1", t, p)
          => /\ w'.timeout = (IF t = <<>> THEN config.wait_timeout ELSE t[1])
             /\ w'.poll_interval =
                  (IF p = <<>> THEN config.poll_interval ELSE p[1])
    ]_vars

\* What a request of the experiment's lifecycle addresses: a create carries
\* the name in its body, a delete or get in its arguments.
Address(c) ==
  IF c.fn = "create"
    THEN <<c.body.kind, c.body.metadata.namespace, c.body.metadata.name>>
    ELSE c.target

\* C35: an experiment that construction returned has a name: the name
\* argument if one was given, else "podchaos", "-" and the decimal digits of
\* the whole seconds of the clock at construction; to_crd, apply, delete and
\* the status requests change no field of the experiment; every payload
\* built and every request made addresses the experiment's kind, namespace
\* and name.
C35_NameFixedAtConstruction ==
  [][ /\ chaos'.built
         => /\ chaos'.name # <<>>
            /\ IF chaos'.given # <<>>
                 THEN chaos'.name = chaos'.given[1]
                 ELSE /\ Len(chaos'.name) >= 3
                      /\ chaos'.name[1] = "podchaos"
                      /\ chaos'.name[2] = "-"
                      /\ \A i \in 3..Len(chaos'.name) : chaos'.name[i] \in Digits
                      /\ chaos'.name[3] # "0"
                      /\ DecimalValue(SubSeq(chaos'.name, 3, Len(chaos'.name)))
                           = chaos'.now \div TicksPerSecond
            /\ \A i \in DOMAIN chaos'.payloads :
                 /\ chaos'.payloads[i].metadata.name = chaos'.name
                 /\ chaos'.payloads[i].metadata.namespace = chaos'.namespace
                 /\ chaos'.payloads[i].kind = chaos'.kind
      /\ chaos.built
         => [chaos' EXCEPT !.payloads = chaos.payloads] = chaos
      /\ (call' # call /\ call'.fn # "none")
         => Address(call') = Target(chaos)
    ]_vars

\* C35 witness: an experiment constructed without a name, late in a second
\* that has two digits, has built a payload and has been created, and a
\* later request for its status has been answered.
C35_Witness ==
  /\ chaos.built
  /\ chaos.given = <<>>
  /\ chaos.now % TicksPerSecond # 0
  /\ Len(chaos.name) = 4
  /\ Len(chaos.payloads) >= 1
  /\ cluster["e1"].exists
  /\ call.fn = "get"
  /\ call.at = "done"
  /\ call.lastHttp = 200

\* The ChaosConfig instances created so far.
Instances == 1..(1 + Len(ChaosConfig.others))

\* The step leaves the class's instance and the fields of every instance
\* as they are and returns that instance.
SameInstanceReturned ==
  /\ ChaosConfig'.instance = ChaosConfig.instance
  /\ ChaosConfig'.returned = ChaosConfig.instance
  /\ ChaosConfig'.others = ChaosConfig.others
  /\ config' = config

SameRequestsSleepsErrors ==
  /\ run.base.requests = run.manager.requests
  /\ run.base.sleeps = run.manager.sleeps
  /\ run.base.raised = run.manager.raised

\* C37 (as claimed): a lifecycle method run as BaseChaos's and as
\* ChaosManager's on the same experiment against the same answers issues the
\* same requests, sleeps the same number of times and ends with the same
\* error type or the same return value.
C37_Claim_SameLifecycle ==
  run.called
    => /\ SameRequestsSleepsErrors
       /\ run.base.returned = run.manager.returned
       /\ run.base.status = run.manager.status

\* C37 (amended): the same, but for the return value of apply: BaseChaos.apply
\* returns the experiment, ChaosManager.apply returns None.
C37_SameLifecycleButApplyReturn ==
  run.called
    => /\ SameRequestsSleepsErrors
       /\ run.base.status = run.manager.status
       /\ IF run.method = "apply" /\ run.base.raised = "none"
            THEN run.base.returned = "self" /\ run.manager.returned = "None"
            ELSE run.base.returned = run.manager.returned

\* C37 witness: both implementations of wait_for_injection, called with
\* arguments None, have slept at least once and raised
\* ChaosMeshConnectionError on a later status request.
C37_Witness ==
  /\ run.called
  /\ run.method = "wait_for_injection"
  /\ run.timeout = <<>>
  /\ run.manager.sleeps >= 1
  /\ run.manager.raised = "ChaosMeshConnectionError"
  /\ run.base.raised = "ChaosMeshConnectionError"
  /\ Len(run.base.requests) = run.manager.sleeps + 1

\* C38 (as claimed): the ExperimentTimeoutError that ends a
\* wait_for_injection states the elapsed time and the experiment's selector,
\* in BaseChaos's implementation and in ChaosManager's.
C38_Claim_TimeoutCarriesSelector ==
  ( /\ run.called
    /\ run.method = "wait_for_injection"
    /\ run.base.raised = "ExperimentTimeoutError" )
  => /\ {"elapsed", "selector"} \subseteq run.base.carries
     /\ {"elapsed", "selector"} \subseteq run.manager.carries

====
